---------------------------- MODULE Spec2Model ----------------------------
(***************************************************************************)
(* Verification model of playwright-ms-auth: the session cache (utils),    *)
(* the credential providers and their factory, the certificate route       *)
(* bridge (certAuth), the authentication orchestrator (authenticate), the  *)
(* configuration loader (config) and the command line (cli).               *)
(*                                                                         *)
(* Text is modelled as a sequence of one-character strings, a byte buffer  *)
(* as a sequence of numbers 0..255, a filesystem path as a sequence of     *)
(* segments (each segment a sequence of characters).                       *)
(***************************************************************************)
EXTENDS Integers, Sequences, FiniteSets, TLC

(***************************************************************************)
(* State.  Each part of the program is a state machine over its own group  *)
(* of variables; a specification runs one machine and leaves the variables *)
(* of the others as they are.                                              *)
(***************************************************************************)
\* utils path derivation: the call in progress, its arguments, its results
VARIABLES pathPc, pathIn, pathOut
\* providers and factory: the arguments, the provider objects, the last call
VARIABLES provIn, provHeap, provLast
\* session cache: the arguments of one validity check and its outcome
VARIABLES cacheIn, cacheOut
\* orchestrator: the clock, the caller's configuration, the process
\* surroundings, the session files, the passes, the last loadStorageState
VARIABLES now, msAuthConfig, ambient, fs, pass, load
\* certificate route bridge: the intercepted request and the upstream's
\* answer, the upstream exchange, the handler
VARIABLES bridgeIn, net, bridge
\* command line: the arguments and the environment the process starts
\* with, and the login action
VARIABLES cliIn, cli

pathVars == <<pathPc, pathIn, pathOut>>
provVars == <<provIn, provHeap, provLast>>
cacheVars == <<cacheIn, cacheOut>>
authVars == <<now, msAuthConfig, ambient, fs, pass, load>>
bridgeVars == <<bridgeIn, net, bridge>>
cliVars == <<cliIn, cli>>
vars == <<pathVars, provVars, cacheVars, authVars, bridgeVars, cliVars>>

exceptPath == <<provVars, cacheVars, authVars, bridgeVars, cliVars>>
exceptProv == <<pathVars, cacheVars, authVars, bridgeVars, cliVars>>
exceptCache == <<pathVars, provVars, authVars, bridgeVars, cliVars>>
exceptAuth == <<pathVars, provVars, cacheVars, bridgeVars, cliVars>>
exceptBridge == <<pathVars, provVars, cacheVars, authVars, cliVars>>
exceptCli == <<pathVars, provVars, cacheVars, authVars, bridgeVars>>

(***************************************************************************)
(* Characters                                                              *)
(***************************************************************************)
LowerLetters == <<"a","b","c","d","e","f","g","h","i","j","k","l","m",
                 "n","o","p","q","r","s","t","u","v","w","x","y","z">>
UpperLetters == <<"A","B","C","D","E","F","G","H","I","J","K","L","M",
                 "N","O","P","Q","R","S","T","U","V","W","X","Y","Z">>
Digits == <<"0","1","2","3","4","5","6","7","8","9">>

Range(f) == {f[i] : i \in DOMAIN f}

LowerCase == Range(LowerLetters)
UpperCase == Range(UpperLetters)
DigitChars == Range(Digits)

(***************************************************************************)
(* utils: path derivation (src/unnamed/part_004)                           *)
(***************************************************************************)

\* The separators node:path splits on: "/" everywhere, "\" on win32 too.
pathSeparators(platform) ==
  IF platform = "win32" THEN {"/", "\\"} ELSE {"/"}

\* Cut a character sequence into segments at the platform's separators.
RECURSIVE splitSegments(_, _, _, _)
splitSegments(chars, seps, cur, acc) ==
  IF chars = <<>> THEN Append(acc, cur)
  ELSE IF Head(chars) \in seps
       THEN splitSegments(Tail(chars), seps, <<>>, Append(acc, cur))
       ELSE splitSegments(Tail(chars), seps, Append(cur, Head(chars)), acc)

\* node:path normalize on segments: "" and "." vanish, ".." pops a segment.
RECURSIVE normalizeSegments(_, _)
normalizeSegments(segs, acc) ==
  IF segs = <<>> THEN acc
  ELSE LET s == Head(segs) IN
       IF s = <<>> \/ s = <<".">> THEN normalizeSegments(Tail(segs), acc)
       ELSE IF s = <<".", ".">>
            THEN normalizeSegments(Tail(segs),
                   IF acc = <<>> THEN acc ELSE SubSeq(acc, 1, Len(acc) - 1))
            ELSE normalizeSegments(Tail(segs), Append(acc, s))

\* join(dir, name): the segments of dir followed by those of name, normalized.
join(dir, name, platform) ==
  normalizeSegments(dir \o splitSegments(name, pathSeparators(platform), <<>>, <<>>), <<>>)

\* The working directory and the home directory of the process.
cwdDir == << <<"w">> >>
homedir == << <<"h">> >>

\* resolve(dir): an absolute directory as it is, a relative one under cwd.
resolve(d) ==
  IF d.abs THEN normalizeSegments(d.segs, <<>>)
  ELSE normalizeSegments(cwdDir \o d.segs, <<>>)

\* A value of process.env.MS_AUTH_OUTPUT_DIR: unset, or a directory.
EnvUnset == [set |-> FALSE, abs |-> FALSE, segs |-> <<>>]
EnvDir(abs, segs) == [set |-> TRUE, abs |-> abs, segs |-> segs]

\* The literal ".playwright-ms-auth", abbreviated.
defaultDirName == <<".", "p">>

getAuthBaseDir(envOutputDir) ==
  IF envOutputDir.set /\ envOutputDir.segs # <<>>
  THEN resolve(envOutputDir)
  ELSE resolve([abs |-> TRUE, segs |-> homedir \o <<defaultDirName>>])

\* The class [a-zA-Z0-9@.-] of the regular expression in sanitizeEmail.
isEmailSafeChar(c) ==
  c \in LowerCase \/ c \in UpperCase \/ c \in DigitChars \/ c \in {"@", ".", "-"}

\* A sanitizer that forgets the win32 separator.
sanitizeEmailKeepsBackslash(email) ==
  [i \in 1..Len(email) |->
     IF isEmailSafeChar(email[i]) \/ email[i] = "\\" THEN email[i] ELSE "_"]

\* email.replace(/[^a-zA-Z0-9@.-]/g, "_")
sanitizeEmail(email) ==
  [i \in 1..Len(email) |-> IF isEmailSafeChar(email[i]) THEN email[i] ELSE "_"]

\* join(authDir, `state-${sanitizedEmail}.json`)
getStorageStatePath(email, envOutputDir, platform) ==
  join(getAuthBaseDir(envOutputDir),
       <<"s","t","a","t","e","-">> \o sanitizeEmail(email)
         \o <<".","j","s","o","n">>,
       platform)

\* new Date().toISOString().replace(/[:.]/g, "-")
timestampText(iso) ==
  [i \in 1..Len(iso) |-> IF iso[i] \in {":", "."} THEN "-" ELSE iso[i]]

\* status is "success" or "failed"
statusText(status) ==
  IF status = "success" THEN <<"s","u","c","c","e","s","s">>
  ELSE <<"f","a","i","l","e","d">>

screenshotsDirName == <<"s","c","r","e","e","n","s","h","o","t","s">>

\* join(authDir, "screenshots", `auth-${sanitizedEmail}-${status}-${timestamp}.png`)
getAuthScreenshotPath(email, status, iso, envOutputDir, platform) ==
  join(join(getAuthBaseDir(envOutputDir), screenshotsDirName, platform),
       <<"a","u","t","h","-">> \o sanitizeEmail(email) \o <<"-">>
         \o statusText(status) \o <<"-">> \o timestampText(iso)
         \o <<".","p","n","g">>,
       platform)


(***************************************************************************)
(* Path derivation as a state machine: an identity, a second identity, a   *)
(* process environment and a platform are drawn, then the session path of  *)
(* both identities and the screenshot path of the first are derived.       *)
(***************************************************************************)
MaxIdLen == 2

\* Identity characters: one or two of each class the sanitizer tells apart.
IdChars == {"a", "Z", "7", "@", ".", "-", "_", "/", "\\", "+"}
PeerChars == {"a", "_"}

SeqsUpTo(S, n) == UNION {[1..k -> S] : k \in 0..n}

OutputDirs == {EnvUnset, EnvDir(FALSE, << <<"o">> >>)}
Platforms == {"posix", "win32"}

\* An ISO timestamp, abbreviated to its punctuation.
IsoSamples == {<<"1", ":", "2", ".", "3", "Z">>}

NoPaths == [storage |-> <<>>, peer |-> <<>>, shot |-> <<>>]

PathInit ==
  /\ pathPc = "input"
  /\ pathIn \in [email : SeqsUpTo(IdChars, MaxIdLen),
                 peer : SeqsUpTo(PeerChars, MaxIdLen),
                 env : OutputDirs,
                 platform : Platforms]
  /\ pathOut = NoPaths

PathParked ==
  /\ pathPc = "off"
  /\ pathIn = [email |-> <<>>, peer |-> <<>>, env |-> EnvUnset, platform |-> "posix"]
  /\ pathOut = NoPaths

\* getStorageStatePath(email) for the identity and for the second identity
CallGetStorageStatePath ==
  /\ pathPc = "input"
  /\ pathOut' = [pathOut EXCEPT
                   !.storage = getStorageStatePath(pathIn.email, pathIn.env, pathIn.platform),
                   !.peer = getStorageStatePath(pathIn.peer, pathIn.env, pathIn.platform)]
  /\ pathPc' = "derived"
  /\ UNCHANGED <<pathIn, exceptPath>>

\* getAuthScreenshotPath(email, status)
CallGetAuthScreenshotPath ==
  /\ pathPc = "derived"
  /\ \E status \in {"success", "failed"}, iso \in IsoSamples :
       pathOut' = [pathOut EXCEPT
                     !.shot = getAuthScreenshotPath(pathIn.email, status, iso,
                                                    pathIn.env, pathIn.platform)]
  /\ pathPc' = "shot"
  /\ UNCHANGED <<pathIn, exceptPath>>

PathNext == CallGetStorageStatePath \/ CallGetAuthScreenshotPath


(***************************************************************************)
(* Claims about path derivation                                            *)
(***************************************************************************)

\* The characters a derived name may hold: letters, digits and @ . - _
FileNameClass == LowerCase \cup UpperCase \cup DigitChars \cup {"@", ".", "-", "_"}

StatePrefix == <<"s","t","a","t","e","-">>
StateSuffix == <<".","j","s","o","n">>
ShotPrefix == <<"a","u","t","h","-">>

Last(seq) == seq[Len(seq)]

\* The identity-derived part of a session file name "state-<part>.json".
IdentityPartOfState(name, n) == SubSeq(name, Len(StatePrefix) + 1, Len(StatePrefix) + n)

\* The identity-derived part of a screenshot file name "auth-<part>-...".
IdentityPartOfShot(name, n) == SubSeq(name, Len(ShotPrefix) + 1, Len(ShotPrefix) + n)

\* C5: for any identity, the identity-derived component of the session path
\* and of the screenshot path holds only characters from [A-Za-z0-9@.-_]:
\* every other character, path separators included, has become '_', so the
\* derived name is one segment directly under the base directory (under
\* <base>/screenshots for a screenshot), and the component is the same for
\* the same identity whatever the environment and the platform.
C5_SanitizedNameSafe ==
  LET n == Len(pathIn.email)
      base == getAuthBaseDir(pathIn.env)
      st == pathOut.storage
      sh == pathOut.shot
      part == IdentityPartOfState(Last(st), n)
  IN /\ pathPc \in {"derived", "shot"} =>
          /\ Len(st) = Len(base) + 1
          /\ SubSeq(st, 1, Len(base)) = base
          /\ Len(Last(st)) = Len(StatePrefix) + n + Len(StateSuffix)
          /\ SubSeq(Last(st), 1, Len(StatePrefix)) = StatePrefix
          /\ \A i \in 1..n :
               /\ part[i] \in FileNameClass
               /\ part[i] \notin {"/", "\\"}
               /\ part[i] # pathIn.email[i] => part[i] = "_"
               /\ pathIn.email[i] \in FileNameClass => part[i] = pathIn.email[i]
          /\ \A e \in OutputDirs, pf \in Platforms :
               Last(getStorageStatePath(pathIn.email, e, pf)) = Last(st)
     /\ pathPc = "shot" =>
          /\ Len(sh) = Len(base) + 2
          /\ SubSeq(sh, 1, Len(base)) = base
          /\ sh[Len(base) + 1] = screenshotsDirName
          /\ IdentityPartOfShot(Last(sh), n) = part

\* C5 witness: the paths of an identity holding both separators were derived
\* on the platform that splits on both.
C5_Witness ==
  /\ pathPc = "shot"
  /\ pathIn.platform = "win32"
  /\ pathIn.email = <<"/", "\\">>
  /\ Last(pathOut.storage) = StatePrefix \o <<"_", "_">> \o StateSuffix

\* C6 as claimed: two distinct identities never have the same session path.
C6_DistinctIdentitiesDistinctPaths ==
  (pathPc \in {"derived", "shot"} /\ pathIn.email # pathIn.peer)
    => pathOut.storage # pathOut.peer

\* The class of characters the sanitizer keeps: [A-Za-z0-9@.-]
KeptClass == LowerCase \cup UpperCase \cup DigitChars \cup {"@", ".", "-"}

\* C6 amended: two identities have the same session path exactly when they
\* have the same length and at every position either hold the same character
\* or both hold a character outside [A-Za-z0-9@.-] ('_' is outside it); so
\* distinct identities made only of characters of that class never share one.
C6_CollideOnlyOutsideClass ==
  LET a == pathIn.email
      b == pathIn.peer
  IN pathPc \in {"derived", "shot"} =>
       /\ (pathOut.storage = pathOut.peer) <=>
            /\ Len(a) = Len(b)
            /\ \A i \in 1..Len(a) :
                 a[i] = b[i] \/ (a[i] \notin KeptClass /\ b[i] \notin KeptClass)
       /\ ((\A i \in 1..Len(a) : a[i] \in KeptClass)
            /\ (\A i \in 1..Len(b) : b[i] \in KeptClass)
            /\ a # b) => pathOut.storage # pathOut.peer

\* C6 witness: two distinct identities whose session paths were derived and
\* are the same path.
C6_Witness ==
  /\ pathPc = "derived"
  /\ pathIn.email = <<"a", "+">>
  /\ pathIn.peer = <<"a", "_">>
  /\ pathOut.storage = pathOut.peer


\* C34: the session path is determined by the configuration alone: with
\* the identity of the configuration fixed, the derived path is the same
\* whatever the value of MS_AUTH_OUTPUT_DIR in the process environment.
C34_PathFromConfigAlone ==
  (pathPc # "input" /\ pathPc # "off")
  => \A e \in OutputDirs :
       pathOut.storage = getStorageStatePath(pathIn.email, e, pathIn.platform)

(***************************************************************************)
(* Text and byte helpers of the credential providers                       *)
(***************************************************************************)

\* The printable ASCII characters, in code order from 32 (space) to 126 (the
\* double quote and the grave accent are written as words).
AsciiTable == <<" ", "!", "dquote", "#", "$", "%", "&", "'", "(", ")", "*", "+",
            ",", "-", ".", "/", "0", "1", "2", "3", "4", "5", "6", "7",
            "8", "9", ":", ";", "<", "=", ">", "?", "@", "A", "B", "C",
            "D", "E", "F", "G", "H", "I", "J", "K", "L", "M", "N", "O",
            "P", "Q", "R", "S", "T", "U", "V", "W", "X", "Y", "Z", "[",
            "\\", "]", "^", "_", "grave", "a", "b", "c", "d", "e", "f", "g",
            "h", "i", "j", "k", "l", "m", "n", "o", "p", "q", "r", "s",
            "t", "u", "v", "w", "x", "y", "z", "{", "|", "}", "~">>

\* The byte of a character (the text of the model is ASCII, where UTF-8
\* encodes one character as one byte).
charCode(c) ==
  IF c = "\n" THEN 10
  ELSE IF c = "\t" THEN 9
  ELSE IF c = "\r" THEN 13
  ELSE 31 + (CHOOSE i \in 1..Len(AsciiTable) : AsciiTable[i] = c)

\* Buffer contents of a text, and the text of a buffer (toString("utf-8")).
bytesOf(text) == [i \in 1..Len(text) |-> charCode(text[i])]

isWhitespace(c) == c \in {" ", "\n", "\t", "\r"}

\* The positions of a text that hold a character that is not whitespace.
inkPositions(text) == {i \in 1..Len(text) : ~isWhitespace(text[i])}

Min(S) == CHOOSE x \in S : \A y \in S : x <= y
Max(S) == CHOOSE x \in S : \A y \in S : x >= y

trimStart(text) ==
  IF inkPositions(text) = {} THEN <<>>
  ELSE SubSeq(text, Min(inkPositions(text)), Len(text))

trimEnd(text) ==
  IF inkPositions(text) = {} THEN <<>>
  ELSE SubSeq(text, 1, Max(inkPositions(text)))

\* String.prototype.trim
trim(text) == trimEnd(trimStart(text))

\* String.prototype.toLowerCase / toUpperCase on one character
toLowerChar(c) ==
  IF c \in UpperCase
  THEN LowerLetters[CHOOSE i \in 1..26 : UpperLetters[i] = c]
  ELSE c

toUpperChar(c) ==
  IF c \in LowerCase
  THEN UpperLetters[CHOOSE i \in 1..26 : LowerLetters[i] = c]
  ELSE c

\* The base64 alphabet, in value order.
Base64Alphabet == UpperLetters \o LowerLetters \o Digits \o <<"+", "/">>

\* The value of a base64 character; 64 for a character outside the alphabet.
\* Node's decoder accepts the URL-safe characters as well.
unbase64(c) ==
  IF c = "-" THEN 62
  ELSE IF c = "_" THEN 63
  ELSE IF c \in Range(Base64Alphabet)
       THEN (CHOOSE i \in 1..64 : Base64Alphabet[i] = c) - 1
       ELSE 64

\* The six-bit values of a text: characters outside the alphabet are skipped.
isBase64Char(c) == unbase64(c) < 64

sextetsOf(text) ==
  LET kept == SelectSeq(text, isBase64Char)
  IN [i \in 1..Len(kept) |-> unbase64(kept[i])]

\* Byte k of the bytes packed into a sequence of six-bit values.
packedByte(sx, k) ==
  LET bit == 8 * (k - 1)
      i == (bit \div 6) + 1
      off == bit % 6
  IN IF off = 0 THEN sx[i] * 4 + (sx[i + 1] \div 16)
     ELSE IF off = 2 THEN (sx[i] % 16) * 16 + (sx[i + 1] \div 4)
     ELSE (sx[i] % 4) * 64 + sx[i + 1]

\* Buffer.from(text, "base64"): never throws; whole bytes only.
base64Decode(text) ==
  LET sx == sextetsOf(text)
  IN [k \in 1..((Len(sx) * 6) \div 8) |-> packedByte(sx, k)]

\* What getCredential returns or throws.
certificateResult(bytes) ==
  [ok |-> TRUE, type |-> "certificate", form |-> "buffer", data |-> bytes, error |-> "none"]

passwordResult(text) ==
  [ok |-> TRUE, type |-> "password", form |-> "string", data |-> text, error |-> "none"]

thrown(error) ==
  [ok |-> FALSE, type |-> "none", form |-> "none", data |-> <<>>, error |-> error]


(***************************************************************************)
(* Credential providers (src/src/providers, src/unnamed/part_000)          *)
(*                                                                         *)
(* A provider configuration is a record holding the fields of all four     *)
(* variants; a field a variant does not have is the empty text, which the  *)
(* code's !field tests treat like undefined.  world is what the backends   *)
(* hold: the process environment, the credential file and the vault secret.*)
(***************************************************************************)

\* The DER SEQUENCE tag 0x30 and the size a decoded certificate must exceed.
DerSequenceTag == 48
MinCertSize == 100
GitHubMinCertSize == 100

\* process.env[name]: undefined and "" are both false in the !value test.
envLookup(env, name) == IF name \in DOMAIN env THEN env[name] ELSE <<>>

\* EnvironmentProvider.validateConfig
environmentValidateConfig(config) ==
  IF config.variableName = <<>> THEN "Environment variable name is required"
  ELSE "ok"

\* EnvironmentProvider.getCredential
environmentGetCredential(config, world) ==
  LET value == envLookup(world.env, config.variableName)
      decoded == base64Decode(value)
  IN IF value = <<>> THEN thrown("Environment variable is not set or empty")
     ELSE IF Len(decoded) > MinCertSize /\ decoded[1] = DerSequenceTag
          THEN certificateResult(decoded)
          ELSE passwordResult(value)

\* GitHubSecretsProvider.validateConfig
githubValidateConfig(config) ==
  IF config.repository = <<>> THEN "GitHub repository is required"
  ELSE IF config.secretName = <<>> THEN "GitHub secret name is required"
  ELSE "ok"

\* secretName.toUpperCase().replace(/[^A-Z0-9_]/g, "_")
githubEnvVarName(secretName) ==
  [i \in 1..Len(secretName) |->
     LET u == toUpperChar(secretName[i])
     IN IF u \in UpperCase \/ u \in DigitChars \/ u = "_" THEN u ELSE "_"]

\* GitHubSecretsProvider.getCredential
githubGetCredential(config, world) ==
  LET value == envLookup(world.env, githubEnvVarName(config.secretName))
      decoded == base64Decode(value)
  IN IF value = <<>> THEN thrown("GitHub secret not found in environment")
     ELSE IF Len(decoded) > GitHubMinCertSize /\ decoded[1] = DerSequenceTag
          THEN certificateResult(decoded)
          ELSE passwordResult(value)

\* LocalFileProvider.validateConfig
localFileValidateConfig(config) ==
  IF config.filePath = <<>> THEN "File path is required for local file provider"
  ELSE "ok"

TextExtensions == {<<"t","x","t">>, <<"p","w","d">>,
                   <<"p","a","s","s","w","o","r","d">>}
CertExtensions == {<<"p","f","x">>, <<"p","1","2">>, <<"c","e","r">>,
                   <<"c","r","t">>, <<"p","e","m">>}

\* filePath.match(/\.(e1|e2|...)$/i)
hasExtension(filePath, exts) ==
  \E e \in exts :
    /\ Len(filePath) >= Len(e) + 1
    /\ [i \in 1..(Len(e) + 1) |->
          toLowerChar(filePath[Len(filePath) - Len(e) - 1 + i])] = <<".">> \o e

\* LocalFileProvider.getCredential
localFileGetCredential(config, world) ==
  LET file == world.file
      text == file.content
      isTextFile == hasExtension(config.filePath, TextExtensions)
      isCertFile == hasExtension(config.filePath, CertExtensions)
      decoded == base64Decode(trim(text))
  IN IF ~file.readable THEN thrown("Failed to read credential file")
     ELSE IF isTextFile THEN passwordResult(trim(text))
     ELSE IF isCertFile \/ (text # <<>> /\ charCode(text[1]) = DerSequenceTag)
          THEN certificateResult(bytesOf(text))
     ELSE IF Len(decoded) > 0 /\ decoded[1] = DerSequenceTag
          THEN certificateResult(decoded)
          ELSE passwordResult(trim(text))

\* new URL(text) succeeds: a scheme, a colon, something after it.
isParsableUrl(text) ==
  \E i \in 2..Len(text) :
    /\ text[i] = ":"
    /\ i < Len(text)
    /\ text[1] \in LowerCase \cup UpperCase
    /\ \A j \in 2..(i - 1) :
         text[j] \in LowerCase \cup UpperCase \cup DigitChars \cup {"+", "-", "."}

\* AzureKeyVaultProvider.validateConfig
keyVaultValidateConfig(config) ==
  IF config.keyVaultEndpoint = <<>> THEN "KeyVault endpoint is required"
  ELSE IF config.secretName = <<>> THEN "Secret name is required"
  ELSE IF ~isParsableUrl(config.keyVaultEndpoint) THEN "Invalid KeyVault endpoint URL"
  ELSE "ok"

\* A key-vault provider that hands out a PKCS#12 secret as the base64 text
\* the vault stores.
keyVaultGetCredentialUndecoded(config, world, clock) ==
  LET secret == world.secret
  IN IF ~secret.found THEN thrown("KeyVault getSecret failed")
     ELSE IF secret.value = <<>> THEN thrown("Unable to retrieve secret")
     ELSE IF secret.enabled # "true" THEN thrown("Secret is disabled")
     ELSE IF secret.contentType = "application/x-pkcs12"
          THEN [certificateResult(secret.value) EXCEPT !.form = "string"]
          ELSE passwordResult(secret.value)

\* AzureKeyVaultProvider.getCredential; clock is Date.now()
keyVaultGetCredential(config, world, clock) ==
  LET secret == world.secret
  IN IF ~secret.found THEN thrown("KeyVault getSecret failed")
     ELSE IF secret.value = <<>> THEN thrown("Unable to retrieve secret")
     ELSE IF secret.enabled # "true" THEN thrown("Secret is disabled")
     ELSE IF secret.expiresOn.set /\ secret.expiresOn.at < clock
          THEN thrown("Secret expired")
     ELSE IF secret.notBefore.set /\ secret.notBefore.at > clock
          THEN thrown("Secret is not valid before")
     ELSE IF secret.contentType = "application/x-pkcs12"
          THEN certificateResult(base64Decode(secret.value))
          ELSE passwordResult(secret.value)

(***************************************************************************)
(* CredentialProviderFactory                                               *)
(***************************************************************************)

NoProviderConfig ==
  [keyVaultEndpoint |-> <<>>, secretName |-> <<>>, filePath |-> <<>>,
   variableName |-> <<>>, repository |-> <<>>, certificatePassword |-> <<>>]

NoProvider == [id |-> 0, kind |-> "none", config |-> NoProviderConfig]

\* new XProvider(config): the constructor validates, then the object exists.
\* heap is the sequence of provider objects created so far.
construct(kind, config, validation, heap) ==
  IF validation = "ok"
  THEN [ok |-> TRUE,
        provider |-> [id |-> Len(heap) + 1, kind |-> kind, config |-> config],
        error |-> "none"]
  ELSE [ok |-> FALSE, provider |-> NoProvider, error |-> validation]

\* A factory without the case for the CI-secret kind.
createProviderWithoutGitHub(type, config, heap) ==
  CASE type = "azure-keyvault" -> construct(type, config, keyVaultValidateConfig(config), heap)
    [] type = "local-file" -> construct(type, config, localFileValidateConfig(config), heap)
    [] type = "environment" -> construct(type, config, environmentValidateConfig(config), heap)
    [] OTHER -> [ok |-> FALSE, provider |-> NoProvider,
                 error |-> "Unsupported credential provider type"]

\* CredentialProviderFactory.createProvider
createProvider(type, config, heap) ==
  CASE type = "azure-keyvault" -> construct(type, config, keyVaultValidateConfig(config), heap)
    [] type = "local-file" -> construct(type, config, localFileValidateConfig(config), heap)
    [] type = "environment" -> construct(type, config, environmentValidateConfig(config), heap)
    [] type = "github-secrets" -> construct(type, config, githubValidateConfig(config), heap)
    [] OTHER -> [ok |-> FALSE, provider |-> NoProvider,
                 error |-> "Unsupported credential provider type"]

\* CredentialProviderFactory.getSupportedProviders
getSupportedProviders ==
  <<"azure-keyvault", "local-file", "environment", "github-secrets">>

\* provider.getCredential(), dispatched on the class of the provider object
getCredential(provider, world, clock) ==
  CASE provider.kind = "azure-keyvault" ->
         keyVaultGetCredential(provider.config, world, clock)
    [] provider.kind = "local-file" -> localFileGetCredential(provider.config, world)
    [] provider.kind = "environment" -> environmentGetCredential(provider.config, world)
    [] provider.kind = "github-secrets" -> githubGetCredential(provider.config, world)


(***************************************************************************)
(* The providers as a state machine: a provider type, a configuration and  *)
(* the content of the backends are drawn; the factory is called (several   *)
(* times, with the same arguments) and the providers it built are asked    *)
(* for the credential.                                                     *)
(***************************************************************************)
MaxProviders == 2

\* n times the base64 character of value 0
fill(n) == [i \in 1..n |-> "A"]

\* The number of base64 characters that decode to exactly MinCertSize bytes
\* when two more characters precede them.
FillToThreshold == ((MinCertSize * 4) \div 3) - 1

\* Credential contents: a base64 DER head ("MI" decodes to 0x30 ...), a raw
\* DER head (the byte 0x30 is the character "0"), a password, each as it is,
\* one byte under and one byte over the size threshold once decoded, with
\* and without surrounding whitespace; and the empty content.
ContentHeads == {<<"M", "I">>, <<"0", "I">>, <<"p", "w">>, <<" ", "M", "I">>}
ContentFills == {0, FillToThreshold, FillToThreshold + 1}
ContentTails == {<<>>, <<"\n">>}

ContentSamples ==
  {h \o fill(n) \o t : h \in ContentHeads, n \in ContentFills, t \in ContentTails}
    \cup {<<>>}

NoTime == [set |-> FALSE, at |-> 0]

SecretSamples(content) ==
  {[found |-> TRUE, value |-> content, enabled |-> "true",
    notBefore |-> NoTime, expiresOn |-> NoTime, contentType |-> ct] :
      ct \in {"application/x-pkcs12", "none"}}

\* Validity timestamps around the clock of the provider machine, which
\* stands at 1: not set, before, at and after it.
VaultTimes == {NoTime} \cup {[set |-> TRUE, at |-> t] : t \in 0..2}

\* secret.properties.enabled: true, false, or not reported
VaultEnabled == {"true", "false", "unknown"}

\* Secrets of the vault: a password and a base64 text, under every
\* combination of the metadata; a secret without a value.
VaultSecretSamples ==
  {[found |-> TRUE, value |-> v, enabled |-> e,
    notBefore |-> nb, expiresOn |-> ex, contentType |-> ct] :
      v \in {<<"p", "w">>, <<"M", "I", "I", "=">>}, e \in VaultEnabled,
      nb \in VaultTimes, ex \in VaultTimes,
      ct \in {"application/x-pkcs12", "none"}}
    \cup
  {[found |-> TRUE, value |-> <<>>, enabled |-> "true",
    notBefore |-> NoTime, expiresOn |-> NoTime, contentType |-> "none"]}

EnvNames == {<<"C">>, <<"M", "_", "S">>}

WorldSamples ==
  UNION {{[env |-> [n \in EnvNames |-> c],
           file |-> [readable |-> TRUE, content |-> c],
           secret |-> sec] : sec \in SecretSamples(c)} : c \in ContentSamples}
  \cup
  {[env |-> [n \in EnvNames |-> <<>>], file |-> [readable |-> FALSE, content |-> <<>>],
    secret |-> [found |-> FALSE, value |-> <<>>, enabled |-> "unknown",
                notBefore |-> NoTime, expiresOn |-> NoTime, contentType |-> "none"]]}
  \cup
  {[env |-> [n \in EnvNames |-> <<>>], file |-> [readable |-> FALSE, content |-> <<>>],
    secret |-> sec] : sec \in VaultSecretSamples}

UrlSample == <<"h", ":", "/", "/", "k", "v">>

ProviderConfigSamples(type) ==
  CASE type = "environment" ->
         {[NoProviderConfig EXCEPT !.variableName = v] : v \in {<<>>, <<"C">>}}
    [] type = "local-file" ->
         {[NoProviderConfig EXCEPT !.filePath = f] :
            f \in {<<>>, <<"c">>, <<"c", ".", "t", "x", "t">>, <<"c", ".", "P", "F", "X">>}}
    [] type = "github-secrets" ->
         {[NoProviderConfig EXCEPT !.repository = r, !.secretName = n] :
            r \in {<<>>, <<"o", "/", "r">>}, n \in {<<>>, <<"m", "-", "s">>}}
    [] type = "azure-keyvault" ->
         {[NoProviderConfig EXCEPT !.keyVaultEndpoint = e, !.secretName = n] :
            e \in {<<>>, <<"k", "v">>, UrlSample}, n \in {<<>>, <<"s">>}}
    [] OTHER -> {NoProviderConfig}

\* The type values tried: the four of CredentialProviderType and two others.
ProviderTypesTried ==
  {"azure-keyvault", "local-file", "environment", "github-secrets", "vault", ""}

NoLast == [op |-> "none", created |-> [ok |-> FALSE, provider |-> NoProvider, error |-> "none"],
           on |-> NoProvider, cred |-> thrown("none")]

ProvInit ==
  /\ \E t \in ProviderTypesTried :
       \E c \in ProviderConfigSamples(t), w \in WorldSamples :
         provIn = [type |-> t, config |-> c, world |-> w, clock |-> 1]
  /\ provHeap = <<>>
  /\ provLast = NoLast

ProvParked ==
  /\ provIn = [type |-> "", config |-> NoProviderConfig, world |-> <<>>, clock |-> 0]
  /\ provHeap = <<>>
  /\ provLast = NoLast

\* One call of CredentialProviderFactory.createProvider(type, config)
FactoryCreateProvider ==
  /\ Len(provHeap) < MaxProviders
  /\ LET r == createProvider(provIn.type, provIn.config, provHeap)
     IN /\ provHeap' = IF r.ok THEN Append(provHeap, r.provider) ELSE provHeap
        /\ provLast' = [NoLast EXCEPT !.op = "create", !.created = r]
  /\ UNCHANGED <<provIn, exceptProv>>

\* One call of getCredential() on a provider the factory built
ProviderGetCredential ==
  /\ \E i \in 1..Len(provHeap) :
       provLast' = [NoLast EXCEPT !.op = "get", !.on = provHeap[i],
                      !.cred = getCredential(provHeap[i], provIn.world, provIn.clock)]
  /\ UNCHANGED <<provIn, provHeap, exceptProv>>

ProvNext == FactoryCreateProvider \/ ProviderGetCredential


(***************************************************************************)
(* Claims about the providers and the factory                              *)
(***************************************************************************)

\* The content the provider that answered the last getCredential call read.
ContentRead ==
  IF provLast.on.kind = "local-file" THEN provIn.world.file.content
  ELSE IF provLast.on.kind = "environment"
       THEN envLookup(provIn.world.env, provLast.on.config.variableName)
       ELSE envLookup(provIn.world.env, githubEnvVarName(provLast.on.config.secretName))

\* Bytes that begin with 0x30 and are more than the size threshold.
LooksLikeCertificate(bytes) ==
  Len(bytes) > MinCertSize /\ bytes[1] = DerSequenceTag

\* The last call was getCredential on a provider that has to classify the
\* content by looking at it: the environment and CI-secret providers, and
\* the local-file provider when the file name has no extension it knows.
Sniffed ==
  /\ provLast.op = "get"
  /\ provLast.cred.ok
  /\ \/ provLast.on.kind \in {"environment", "github-secrets"}
     \/ /\ provLast.on.kind = "local-file"
        /\ ~hasExtension(provLast.on.config.filePath, TextExtensions \cup CertExtensions)

\* C7 as claimed: the local-file, environment and CI-secret providers
\* classify content as certificate exactly when its bytes, as they are or
\* base64 decoded, begin with 0x30 and are more than the size threshold;
\* any other content is returned as password, trimmed of surrounding
\* whitespace.
C7_SniffedClassification ==
  Sniffed
  => LET raw == ContentRead
         isCert == \/ LooksLikeCertificate(bytesOf(raw))
                   \/ LooksLikeCertificate(base64Decode(raw))
     IN /\ provLast.cred.type = "certificate" <=> isCert
        /\ ~isCert => /\ provLast.cred.type = "password"
                      /\ provLast.cred.form = "string"
                      /\ provLast.cred.data = trim(raw)

\* C18 as claimed: getCredential of the key-vault provider throws when the
\* secret is absent or has no value, is disabled, is not valid before a
\* time later than now, or expired at a time earlier than now; in every
\* other case, validity timestamps set or not, it returns a credential
\* made of the secret's value (the text, or the bytes its base64 encodes).
C18_KeyVaultFetchPolicy ==
  (provLast.op = "get" /\ provLast.on.kind = "azure-keyvault")
  => LET secret == provIn.world.secret
         mustFail == \/ ~secret.found
                     \/ secret.value = <<>>
                     \/ secret.enabled = "false"
                     \/ secret.notBefore.set /\ secret.notBefore.at > provIn.clock
                     \/ secret.expiresOn.set /\ secret.expiresOn.at < provIn.clock
     IN IF mustFail THEN ~provLast.cred.ok
        ELSE /\ provLast.cred.ok
             /\ provLast.cred.data \in {secret.value, base64Decode(secret.value)}

\* What each of the three providers without metadata returns when it reads
\* the content of the world of the last call: the local-file provider for a
\* file name without an extension, the environment provider, the CI-secret
\* provider.
SniffedBy(world) ==
  {localFileGetCredential([NoProviderConfig EXCEPT !.filePath = <<"c">>], world),
   environmentGetCredential([NoProviderConfig EXCEPT !.variableName = <<"C">>], world),
   githubGetCredential([NoProviderConfig EXCEPT !.repository = <<"o", "/", "r">>,
                                                !.secretName = <<"m", "-", "s">>], world)}

\* C29 as claimed: a credential that one of the three providers without
\* metadata returned for some content has the type and the value that each
\* of the three returns for the same content.
C29_SameContentSameCredential ==
  (Sniffed /\ provIn.world.file.readable
     /\ \A n \in EnvNames : provIn.world.env[n] = provIn.world.file.content)
  => \A other \in SniffedBy(provIn.world) :
       other.ok => /\ other.type = provLast.cred.type
                   /\ other.data = provLast.cred.data

\* C30 as claimed: a credential the key-vault provider returns is, for a
\* secret with the PKCS#12 content type, the certificate its value encodes
\* in base64; and for a secret without a content type, that certificate
\* when the decoded bytes begin with 0x30 and are more than the size
\* threshold, and the value as password otherwise.
C30_KeyVaultContentTypeThenSniff ==
  (provLast.op = "get" /\ provLast.on.kind = "azure-keyvault" /\ provLast.cred.ok)
  => LET secret == provIn.world.secret
         decoded == base64Decode(secret.value)
     IN IF secret.contentType = "application/x-pkcs12"
             \/ (secret.contentType = "none" /\ LooksLikeCertificate(decoded))
        THEN provLast.cred = certificateResult(decoded)
        ELSE provLast.cred = passwordResult(secret.value)

\* C31: a credential returned by a provider of any of the four kinds is a
\* certificate held as a buffer of bytes or a password held as a string of
\* characters, never a certificate as a string or a password as a buffer.
C31_TypeMatchesRepresentation ==
  (provLast.op = "get" /\ provLast.cred.ok)
  => LET cred == provLast.cred
     IN /\ cred.type \in {"certificate", "password"}
        /\ cred.type = "certificate" <=> cred.form = "buffer"
        /\ cred.type = "password" <=> cred.form = "string"
        /\ IF cred.form = "buffer"
           THEN \A i \in 1..Len(cred.data) : cred.data[i] \in 0..255
           ELSE \A i \in 1..Len(cred.data) :
                  cred.data[i] \in Range(AsciiTable) \cup {"\n", "\t", "\r"}

\* C31 witness: the key-vault provider returned a certificate of at least
\* one byte.
C31_Witness ==
  /\ provLast.op = "get"
  /\ provLast.on.kind = "azure-keyvault"
  /\ provLast.cred.ok
  /\ provLast.cred.type = "certificate"
  /\ provLast.cred.form = "buffer"
  /\ Len(provLast.cred.data) > 0

\* The provider kinds of the type CredentialProviderType.
DefinedProviderKinds == {"azure-keyvault", "local-file", "environment", "github-secrets"}

\* A configuration that has every field its variant requires.
ValidConfigFor(type, config) ==
  CASE type = "azure-keyvault" ->
         /\ config.keyVaultEndpoint = UrlSample
         /\ config.secretName # <<>>
    [] type = "local-file" -> config.filePath # <<>>
    [] type = "environment" -> config.variableName # <<>>
    [] type = "github-secrets" -> config.repository # <<>> /\ config.secretName # <<>>
    [] OTHER -> FALSE

\* C8: createProvider builds a provider of the asked kind for every defined
\* kind given a valid configuration; the kinds it accepts are those
\* getSupportedProviders lists; any other kind fails as unsupported; and the
\* provider a call returns is a new object, none of those built before.
C8_FactoryExhaustive ==
  /\ Range(getSupportedProviders) = DefinedProviderKinds
  /\ provLast.op = "create" =>
       LET r == provLast.created
           t == provIn.type
           supported == t \in Range(getSupportedProviders)
       IN /\ supported <=> r.error # "Unsupported credential provider type"
          /\ (t \in DefinedProviderKinds /\ ValidConfigFor(t, provIn.config))
               => /\ r.ok
                  /\ r.provider.kind = t
                  /\ r.provider.config = provIn.config
          /\ t \notin DefinedProviderKinds
               => /\ ~r.ok
                  /\ r.error = "Unsupported credential provider type"
          /\ r.ok => /\ provHeap[Len(provHeap)] = r.provider
                     /\ \A i \in 1..(Len(provHeap) - 1) : provHeap[i].id # r.provider.id

\* C8 witness: the factory was called twice for the CI-secret kind with a
\* valid configuration and built two providers.
C8_Witness ==
  /\ provLast.op = "create"
  /\ provIn.type = "github-secrets"
  /\ provLast.created.ok
  /\ Len(provHeap) = 2


(***************************************************************************)
(* The session cache (src/unnamed/part_004) and the orchestrator           *)
(* (src/unnamed/part_002)                                                  *)
(*                                                                         *)
(* Time is Date.now() in milliseconds.  A session file is what stat() says *)
(* of it: it is missing (ENOENT), unreadable (stat fails otherwise), or    *)
(* present with a modification time.                                       *)
(***************************************************************************)
HourMs == 60 * 60 * 1000
DefaultExpirationHours == 24

\* config.storageStateExpiration: undefined, or a number of hours
Undefined == [given |-> FALSE, hours |-> 0]
Hours(h) == [given |-> TRUE, hours |-> h]

\* session is whose browser context the file holds: that of a pass of this
\* run, or 0 for a file that was there before.
MissingFile == [state |-> "missing", mtime |-> 0, session |-> 0]
UnreadableFile == [state |-> "unreadable", mtime |-> 0, session |-> 0]
PresentFile(mtime) == [state |-> "present", mtime |-> mtime, session |-> 0]
SessionFile(mtime, session) == [state |-> "present", mtime |-> mtime, session |-> session]

\* What an awaited call gives: a value, or a thrown error.
returned(value) == [threw |-> FALSE, value |-> value, error |-> "none"]
rejected(error) == [threw |-> TRUE, value |-> FALSE, error |-> error]

\* An expiry test that finds no file valid.
isStorageStateValidNever(file, expiration, clock) ==
  IF file.state \in {"present", "missing"} THEN returned(FALSE)
  ELSE rejected("StorageAccessError")

\* An expiry test that lets a file live for exactly the expiration time.
isStorageStateValidInclusive(file, expiration, clock) ==
  LET expirationHours == IF expiration.given THEN expiration.hours
                         ELSE DefaultExpirationHours
      ageMs == clock - file.mtime
      expirationMs == expirationHours * HourMs
  IN IF file.state = "present" THEN returned(ageMs <= expirationMs)
     ELSE IF file.state = "missing" THEN returned(FALSE)
     ELSE rejected("StorageAccessError")

\* An expiry test that takes every failure of stat for a missing file.
isStorageStateValidSwallowing(file, expiration, clock) ==
  LET expirationHours == IF expiration.given THEN expiration.hours
                         ELSE DefaultExpirationHours
      ageMs == clock - file.mtime
      expirationMs == expirationHours * HourMs
  IN IF file.state = "present" THEN returned(ageMs < expirationMs)
     ELSE returned(FALSE)

\* isStorageStateValid(filePath, expirationHours = 24); file is what stat
\* finds at filePath, clock is Date.now()
isStorageStateValid(file, expiration, clock) ==
  LET expirationHours == IF expiration.given THEN expiration.hours
                         ELSE DefaultExpirationHours
      ageMs == clock - file.mtime
      expirationMs == expirationHours * HourMs
  IN IF file.state = "present" THEN returned(ageMs < expirationMs)
     ELSE IF file.state = "missing" THEN returned(FALSE)
     ELSE rejected("StorageAccessError")

\* A storageState call that writes nothing.
storageStateNowhere(files, path, clock, session) == files

\* A storageState call that leaves a file another pass has written.
storageStateUnlessWritten(files, path, clock, session) ==
  IF files[path].session # 0 THEN files
  ELSE [files EXCEPT ![path] = SessionFile(clock, session)]

\* context.storageState({ path }): the file at path is created or replaced
\* with the state of the context
storageState(files, path, clock, session) ==
  [files EXCEPT ![path] = SessionFile(clock, session)]

\* loadStorageState(config)
\* A loadStorageState that measures every file against the default
\* expiration.
loadStorageStateDefaultTtl(conf, amb, files, clock) ==
  LET storagePath == getStorageStatePath(conf.email, amb.env, amb.platform)
      isValid == isStorageStateValid(files[storagePath], Undefined, clock)
  IN IF isValid.threw THEN [ok |-> FALSE, path |-> <<>>, error |-> isValid.error]
     ELSE IF ~isValid.value
          THEN [ok |-> FALSE, path |-> <<>>, error |-> "does not exist or has expired"]
          ELSE [ok |-> TRUE, path |-> storagePath, error |-> "none"]

loadStorageState(conf, amb, files, clock) ==
  LET storagePath == getStorageStatePath(conf.email, amb.env, amb.platform)
      isValid == isStorageStateValid(files[storagePath], conf.storageStateExpiration, clock)
  IN IF isValid.threw THEN [ok |-> FALSE, path |-> <<>>, error |-> isValid.error]
     ELSE IF ~isValid.value
          THEN [ok |-> FALSE, path |-> <<>>, error |-> "does not exist or has expired"]
          ELSE [ok |-> TRUE, path |-> storagePath, error |-> "none"]

(***************************************************************************)
(* The validity check as a state machine: a file, an expiration and a      *)
(* clock are drawn, isStorageStateValid is called once.                    *)
(***************************************************************************)
\* Expirations tried, in hours, besides undefined.
ExpirationHoursTried == {0, 1, 2, DefaultExpirationHours}

\* File ages tried: one millisecond under, at and over each expiration, and
\* a file stamped one millisecond in the future.
AgesTried ==
  UNION {{(h * HourMs) - 1, h * HourMs, (h * HourMs) + 1} : h \in ExpirationHoursTried}

CacheClock == (DefaultExpirationHours + 1) * HourMs

NoCheck == [called |-> FALSE, threw |-> FALSE, value |-> FALSE, error |-> "none"]

CacheInit ==
  /\ \E f \in {MissingFile, UnreadableFile}
               \cup {PresentFile(CacheClock - a) : a \in AgesTried},
        e \in {Undefined} \cup {Hours(h) : h \in ExpirationHoursTried} :
       cacheIn = [file |-> f, expiration |-> e, clock |-> CacheClock]
  /\ cacheOut = NoCheck

CacheParked ==
  /\ cacheIn = [file |-> MissingFile, expiration |-> Undefined, clock |-> 0]
  /\ cacheOut = NoCheck

\* One call of isStorageStateValid(filePath, expirationHours)
CallIsStorageStateValid ==
  /\ ~cacheOut.called
  /\ LET v == isStorageStateValid(cacheIn.file, cacheIn.expiration, cacheIn.clock)
     IN cacheOut' = [called |-> TRUE, threw |-> v.threw, value |-> v.value,
                     error |-> v.error]
  /\ UNCHANGED <<cacheIn, exceptCache>>

CacheNext == CallIsStorageStateValid

(***************************************************************************)
(* The orchestrator's state.  msAuthConfig is the configuration the caller  *)
(* holds, ambient is what the process finds around it (environment, platform, the *)
(* credential backends), fs maps each session path to its file, pass[p] is *)
(* the call of authenticate that process p is in or has last finished, and *)
(* load is the outcome of the last loadStorageState call.                  *)
(***************************************************************************)
Procs == {1, 2}
MaxCalls == 2

\* The clock at the start, late enough for every file age below.
Epoch == 48 * HourMs

\* Ages of the session file found at the start: one hour, and one hour
\* past the default expiration.
FileAges == {HourMs, (DefaultExpirationHours + 1) * HourMs}

\* The time between the end of a call and the start of the next.
Delays == {0, HourMs - 1, HourMs}

ExpirationSamples == {Undefined, Hours(0), Hours(1)}

AuthEmail == <<"u", "@", "x">>

backend(readable, content) ==
  [env |-> [n \in EnvNames |-> <<>>],
   file |-> [readable |-> readable, content |-> content],
   secret |-> [found |-> FALSE, value |-> <<>>, enabled |-> "unknown",
               notBefore |-> NoTime, expiresOn |-> NoTime, contentType |-> "none"]]

\* Where the credential comes from: a password file, a certificate file, a
\* file that cannot be read, a configuration without a file path, a provider
\* kind the factory does not know, and a file whose credential is of the
\* other type than the configured one.  waitForMsalTokens is "undefined",
\* "true" or "false".
scenario(credentialType, credentialProvider, filePath, waitForMsalTokens, files) ==
  [credentialType |-> credentialType, credentialProvider |-> credentialProvider,
   providerConfig |-> [NoProviderConfig EXCEPT !.filePath = filePath],
   waitForMsalTokens |-> waitForMsalTokens, backend |-> files]

CustomLoginEndpoint == <<"l", ".", "c">>

\* The login endpoint is left to its default where the token wait is left
\* to its default, and set otherwise.
loginEndpointFor(s) ==
  IF s.waitForMsalTokens = "undefined" THEN <<>> ELSE CustomLoginEndpoint

PasswordFile == <<"c", ".", "t", "x", "t">>
CertificateFile == <<"c", ".", "p", "f", "x">>

CredentialScenarios ==
  {scenario("password", "local-file", PasswordFile, "undefined", backend(TRUE, <<"p", "w", "\n">>)),
   scenario("password", "local-file", PasswordFile, "false", backend(TRUE, <<"p", "w", "\n">>)),
   [scenario("certificate", "local-file", CertificateFile, "true", backend(TRUE, <<"0", "I">>))
      EXCEPT !.providerConfig.certificatePassword = <<"s">>],
   scenario("password", "local-file", PasswordFile, "undefined", backend(FALSE, <<>>)),
   scenario("password", "local-file", <<>>, "undefined", backend(FALSE, <<>>)),
   scenario("password", "vault", <<>>, "undefined", backend(FALSE, <<>>)),
   scenario("certificate", "local-file", PasswordFile, "undefined", backend(TRUE, <<"p", "w", "\n">>)),
   scenario("password", "local-file", CertificateFile, "undefined", backend(TRUE, <<"0", "I">>))}

ConfigFor(s, e) ==
  [email |-> AuthEmail,
   storageStateExpiration |-> e,
   credentialType |-> s.credentialType,
   credentialProvider |-> s.credentialProvider,
   providerConfig |-> s.providerConfig,
   waitForMsalTokens |-> s.waitForMsalTokens,
   loginEndpoint |-> loginEndpointFor(s)]

AmbientFor(s) == [env |-> EnvUnset, platform |-> "posix", backend |-> s.backend]

SessionPaths == {getStorageStatePath(AuthEmail, EnvUnset, "posix")}

InitialFiles == {MissingFile, UnreadableFile} \cup {PresentFile(Epoch - a) : a \in FileAges}

NoPrev == [pc |-> "idle", path |-> <<>>, wrote |-> FALSE, wroteAt |-> 0]

\* The options of the TLS agent before a route is registered.
NoAgentOptions == [pfx |-> <<>>, passphrase |-> <<>>]

\* A process that is not inside authenticate and has not called it yet.
Idle ==
  [pc |-> "idle", calls |-> 0, startedAt |-> 0, path |-> <<>>,
   seen |-> MissingFile, cacheCheck |-> "none", hist |-> <<>>,
   heap |-> <<>>, provider |-> NoProvider, cred |-> thrown("none"),
   browser |-> "none", context |-> "none", page |-> "none", route |-> FALSE,
   choosers |-> "none", certWait |-> "none", certFailure |-> "none",
   agentOptions |-> NoAgentOptions, tokens |-> "none", actualEndpoint |-> <<>>, landed |-> <<>>,
   prompt |-> "none",
   fatal |-> "none", err |-> "none", wrote |-> FALSE, wroteAt |-> 0,
   shots |-> {}, prev |-> NoPrev]

NoLoad == [called |-> FALSE, at |-> 0, ok |-> FALSE, path |-> <<>>, error |-> "none"]

AuthInit ==
  /\ now = Epoch
  /\ \E s \in CredentialScenarios :
       /\ \E e \in ExpirationSamples : msAuthConfig = ConfigFor(s, e)
       /\ ambient = AmbientFor(s)
  /\ \E f \in InitialFiles : fs = [p \in SessionPaths |-> f]
  /\ pass = [p \in Procs |-> Idle]
  /\ load = NoLoad

AuthParked ==
  /\ now = 0
  /\ msAuthConfig = <<>>
  /\ ambient = <<>>
  /\ fs = <<>>
  /\ pass = <<>>
  /\ load = NoLoad

(***************************************************************************)
(* URLs as the flow reads them (part_002, lines 118-128 and 153-169)       *)
(***************************************************************************)
DEFAULT_LOGIN_ENDPOINT ==
  <<"l", "o", "g", "i", "n", ".", "m", "i", "c", "r", "o", "s", "o", "f", "t", "o", "n", "l", "i", "n", "e", ".", "c", "o", "m">>

Https == <<"h", "t", "t", "p", "s", ":", "/", "/">>

\* String.prototype.startsWith
startsWith(text, prefix) ==
  Len(prefix) <= Len(text) /\ SubSeq(text, 1, Len(prefix)) = prefix

\* String.prototype.includes
includes(text, sub) ==
  \E i \in 0..(Len(text) - Len(sub)) : SubSeq(text, i + 1, i + Len(sub)) = sub

\* new URL(url).hostname, for URLs without user, password and port
hostname(url) ==
  IF ~startsWith(url, Https) THEN <<>>
  ELSE LET rest == SubSeq(url, Len(Https) + 1, Len(url))
           ends == {i \in 1..Len(rest) : rest[i] \in {"/", "?", "#"}}
           stop == IF ends = {} THEN Len(rest) + 1
                   ELSE CHOOSE i \in ends : \A j \in ends : i <= j
       IN SubSeq(rest, 1, stop - 1)

\* new URL(url).origin
origin(url) == Https \o hostname(url)

\* host.split('.').slice(-3).join('.')
baseDomain(host) ==
  LET dots == {i \in 1..Len(host) : host[i] = "."}
      cut == {i \in dots : Cardinality({j \in dots : j >= i}) = 3}
  IN IF cut = {} THEN host
     ELSE SubSeq(host, (CHOOSE i \in cut : TRUE) + 1, Len(host))

\* line 118 and line 168: config.loginEndpoint || DEFAULT_LOGIN_ENDPOINT
loginEndpointOf(config) ==
  IF config.loginEndpoint = <<>> THEN DEFAULT_LOGIN_ENDPOINT ELSE config.loginEndpoint

\* lines 119-126: the pattern https:\/\/<endpoint with dots escaped>\/ has
\* no anchor, so toHaveURL looks for it anywhere in the URL
loginUrlPatternTest(config, url) ==
  includes(url, Https \o loginEndpointOf(config) \o <<"/">>)

\* The same decision when only the origin of the target is accepted.
redirectAcceptedSameOriginOnly(config, targetUrl, currentUrl) ==
  startsWith(currentUrl, origin(targetUrl))

\* lines 156-172: what is accepted once waitForURL(targetUrl) has timed out
redirectAccepted(config, targetUrl, currentUrl) ==
  LET targetDomain == origin(targetUrl)
      targetBaseDomain == baseDomain(hostname(targetUrl))
      currentHostname == hostname(currentUrl)
      currentBaseDomain == baseDomain(currentHostname)
      isOnTargetDomain == startsWith(currentUrl, targetDomain)
                            \/ currentBaseDomain = targetBaseDomain
      isOffLoginPage == ~includes(currentHostname, loginEndpointOf(config))
  IN isOnTargetDomain \/ isOffLoginPage

\* certAuth.ts, line 5
DEFAULT_AUTH_ENDPOINT ==
  <<"l", "o", "g", "i", "n", ".", "m", "i", "c", "r", "o", "s", "o", "f", "t", "o", "n", "l", "i", "n", "e", ".", "c", "o", "m">>

\* certAuth.ts, lines 125-127
getCertAuthGlob(endpoint) ==
  Https \o <<"*", "c", "e", "r", "t", "a", "u", "t", "h", ".">> \o endpoint \o <<"/", "*", "*">>

\* part_002, line 244: the options handleCertificateAuth passes; a
\* passphrase is not among them
certAuthOptionsOf(certificate, endpoint) ==
  [pfx |-> certificate, passphrase |-> <<>>, authEndpoint |-> endpoint]

\* certAuth.ts, lines 24-36: the glob of the route and the options its
\* handler makes the TLS agent from
addCertAuthRoute(options) ==
  [uri |-> getCertAuthGlob(IF options.authEndpoint = <<>> THEN DEFAULT_AUTH_ENDPOINT
                           ELSE options.authEndpoint),
   agentOptions |-> [pfx |-> options.pfx, passphrase |-> options.passphrase]]

\* The target the caller passes to authenticate.
TargetUrl == <<"h", "t", "t", "p", "s", ":", "/", "/", "a", ".", "t", ".", "c", "/", "h">>

\* Where the browser can be when the login page is looked for: on the
\* login endpoint, on another host that carries the login URL in its query,
\* and on another host.
LoginPageUrls(config) ==
  {Https \o loginEndpointOf(config) \o <<"/">>,
   Https \o <<"e", ".", "c", "/", "?", "r", "=">> \o Https \o loginEndpointOf(config) \o <<"/">>,
   Https \o <<"e", ".", "c", "/">>}

\* Where the browser can be after the sign-in: on the target, on a sibling
\* of the target's host, on some other host, still on the login endpoint,
\* and on a host whose name carries the login endpoint's name in front of a
\* proxy's suffix.
LandingUrls(config) ==
  {TargetUrl,
   Https \o <<"b", ".", "a", ".", "t", ".", "c", "/">>,
   Https \o <<"o", ".", "c", "/">>,
   Https \o loginEndpointOf(config) \o <<"/", "x">>,
   Https \o loginEndpointOf(config) \o <<".", "e", ".", "c", "/">>}

(***************************************************************************)
(* authenticate(config, targetUrl), one action per awaited step.  What the *)
(* browser and the identity provider's pages do is drawn at each step.     *)
(***************************************************************************)
AtRest(p) == pass[p].pc \in {"idle", "DONE", "FAILED"}

Enter(r, step) == [r EXCEPT !.hist = Append(@, step)]

\* throw before the browser exists: authenticate rejects at once
Reject(r, error) == [r EXCEPT !.pc = "FAILED", !.fatal = error, !.err = error]

\* throw inside the try block of performAuthenticationFlow
Raise(r, error) == [r EXCEPT !.pc = "FAILURE_SCREENSHOT", !.fatal = error, !.err = error]

Goto(r, pc) == [r EXCEPT !.pc = pc]

Step(p, r) ==
  /\ pass' = [pass EXCEPT ![p] = r]
  /\ UNCHANGED <<now, msAuthConfig, ambient, fs, load, exceptAuth>>

\* authenticate, lines 24-36: the path, the validity check, the fast return.
\* A call after the first starts some time after the one before it ended.
CheckCache(p) ==
  /\ AtRest(p)
  /\ pass[p].calls < MaxCalls
  /\ \E delay \in IF pass[p].calls = 0 THEN {0} ELSE Delays :
       LET clock == now + delay
           storagePath == getStorageStatePath(msAuthConfig.email, ambient.env,
                                              ambient.platform)
           isValid == isStorageStateValid(fs[storagePath],
                                          msAuthConfig.storageStateExpiration, clock)
           r == Enter([Idle EXCEPT
                         !.calls = pass[p].calls + 1,
                         !.startedAt = clock,
                         !.path = storagePath,
                         !.seen = fs[storagePath],
                         !.cacheCheck = IF isValid.threw THEN "error"
                                        ELSE IF isValid.value THEN "valid"
                                        ELSE "invalid",
                         !.prev = [pc |-> pass[p].pc, path |-> pass[p].path,
                                   wrote |-> pass[p].wrote,
                                   wroteAt |-> pass[p].wroteAt]],
                      "CHECK_CACHE")
       IN /\ now' = clock
          /\ pass' = [pass EXCEPT ![p] =
                        IF isValid.threw THEN Reject(r, isValid.error)
                        ELSE IF isValid.value THEN Goto(r, "DONE")
                        ELSE Goto(r, "CREATE_PROVIDER")]
  /\ load' = NoLoad
  /\ UNCHANGED <<msAuthConfig, ambient, fs, exceptAuth>>

\* lines 46-49: CredentialProviderFactory.createProvider
CreateProvider(p) ==
  /\ pass[p].pc = "CREATE_PROVIDER"
  /\ LET r == Enter(pass[p], "CREATE_PROVIDER")
         made == createProvider(msAuthConfig.credentialProvider, msAuthConfig.providerConfig, r.heap)
     IN Step(p, IF made.ok
                THEN [r EXCEPT !.pc = "FETCH_CREDENTIAL",
                               !.heap = Append(@, made.provider),
                               !.provider = made.provider]
                ELSE IF made.error = "Unsupported credential provider type"
                     THEN Reject(r, "UnsupportedProviderError")
                     ELSE Reject(r, "ConfigurationError"))

\* A pass that launches the browser first and asks the provider for the
\* credential afterwards.
FetchCredentialInBrowser(p) ==
  /\ pass[p].pc = "FETCH_CREDENTIAL"
  /\ LET r == [Enter(Enter(pass[p], "LAUNCH_BROWSER"), "FETCH_CREDENTIAL")
                 EXCEPT !.browser = "open"]
         credential == getCredential(r.provider, ambient.backend, now)
     IN Step(p, IF credential.ok
                THEN [r EXCEPT !.pc = "NEW_CONTEXT", !.cred = credential]
                ELSE [r EXCEPT !.pc = "CLOSE_BROWSER",
                               !.fatal = "CredentialRetrievalError",
                               !.err = "CredentialRetrievalError"])

\* line 51: provider.getCredential()
FetchCredential(p) ==
  /\ pass[p].pc = "FETCH_CREDENTIAL"
  /\ LET r == Enter(pass[p], "FETCH_CREDENTIAL")
         credential == getCredential(r.provider, ambient.backend, now)
     IN Step(p, IF credential.ok
                THEN [r EXCEPT !.pc = "LAUNCH_BROWSER", !.cred = credential]
                ELSE Reject(r, "CredentialRetrievalError"))

\* lines 69-73: chromium.launch
LaunchBrowser(p) ==
  /\ pass[p].pc = "LAUNCH_BROWSER"
  /\ LET r == Enter(pass[p], "LAUNCH_BROWSER")
     IN \E launched \in BOOLEAN :
          Step(p, IF launched
                  THEN [r EXCEPT !.pc = "NEW_CONTEXT", !.browser = "open"]
                  ELSE Reject(r, "BrowserLaunchError"))

\* line 106: browser.newContext, outside the try block of the flow
NewContext(p) ==
  /\ pass[p].pc = "NEW_CONTEXT"
  /\ LET r == Enter(pass[p], "NEW_CONTEXT")
     IN \E created \in BOOLEAN :
          Step(p, IF created
                  THEN [r EXCEPT !.pc = "NEW_PAGE", !.context = "open"]
                  ELSE [r EXCEPT !.pc = "CLOSE_BROWSER",
                                 !.fatal = "ContextError", !.err = "ContextError"])

\* A page creation whose failure leaves authenticate without passing
\* through the finally block that closes the browser.
NewPageOutsideFinally(p) ==
  /\ pass[p].pc = "NEW_PAGE"
  /\ LET r == Enter(pass[p], "NEW_PAGE")
     IN \E created \in BOOLEAN :
          Step(p, IF created
                  THEN [r EXCEPT !.pc = "NAVIGATE", !.page = "open"]
                  ELSE Reject(r, "PageError"))

\* line 110: context.newPage, outside the try block of the flow
NewPage(p) ==
  /\ pass[p].pc = "NEW_PAGE"
  /\ LET r == Enter(pass[p], "NEW_PAGE")
     IN \E created \in BOOLEAN :
          Step(p, IF created
                  THEN [r EXCEPT !.pc = "NAVIGATE", !.page = "open"]
                  ELSE [r EXCEPT !.pc = "CLOSE_BROWSER",
                                 !.fatal = "PageError", !.err = "PageError"])

\* A navigation that is tried a second time when the first one fails.
NavigateWithRetry(p) ==
  /\ pass[p].pc = "NAVIGATE"
  /\ LET r == Enter(pass[p], "NAVIGATE")
     IN \E loaded \in BOOLEAN :
          Step(p, IF loaded THEN Goto(r, "VERIFY_LOGIN_PAGE")
                  ELSE IF \A i \in 1..Len(pass[p].hist) : pass[p].hist[i] # "NAVIGATE"
                       THEN Goto(r, "NAVIGATE")
                  ELSE Raise(r, "NavigationError"))

\* line 115: page.goto(targetUrl)
Navigate(p) ==
  /\ pass[p].pc = "NAVIGATE"
  /\ LET r == Enter(pass[p], "NAVIGATE")
     IN \E loaded \in BOOLEAN :
          Step(p, IF loaded THEN Goto(r, "VERIFY_LOGIN_PAGE")
                  ELSE Raise(r, "NavigationError"))

\* lines 118-129: expect(page).toHaveURL(loginUrlPattern)
VerifyLoginPage(p) ==
  /\ pass[p].pc = "VERIFY_LOGIN_PAGE"
  /\ LET r == Enter(pass[p], "VERIFY_LOGIN_PAGE")
     IN \E url \in LoginPageUrls(msAuthConfig) :
          Step(p, IF loginUrlPatternTest(msAuthConfig, url)
                  THEN [r EXCEPT !.pc = "ENTER_EMAIL", !.actualEndpoint = hostname(url)]
                  ELSE Raise(r, "LoginPageMismatchError"))

\* A branch on the configured credential type.
EnterEmailByConfiguredType(p) ==
  /\ pass[p].pc = "ENTER_EMAIL"
  /\ LET r == Enter(pass[p], "ENTER_EMAIL")
     IN \E entered \in BOOLEAN :
          Step(p, IF ~entered THEN Raise(r, "EmailEntryError")
                  ELSE IF msAuthConfig.credentialType = "certificate"
                       THEN Goto(r, "CERT_ADD_ROUTE")
                       ELSE Goto(r, "PW_WAIT_FIELD"))

\* lines 133-146: fill the email, click next, branch on credential.type
EnterEmail(p) ==
  /\ pass[p].pc = "ENTER_EMAIL"
  /\ LET r == Enter(pass[p], "ENTER_EMAIL")
     IN \E entered \in BOOLEAN :
          Step(p, IF ~entered THEN Raise(r, "EmailEntryError")
                  ELSE IF r.cred.type = "certificate"
                       THEN Goto(r, "CERT_ADD_ROUTE")
                       ELSE Goto(r, "PW_WAIT_FIELD"))

\* handlePasswordAuth, lines 329-331: wait for the password field
PwWaitField(p) ==
  /\ pass[p].pc = "PW_WAIT_FIELD"
  /\ LET r == [Enter(pass[p], "PASSWORD_FLOW") EXCEPT !.actualEndpoint = <<>>]
     IN \E appeared \in BOOLEAN :
          Step(p, IF appeared THEN Goto(r, "PW_FILL_SUBMIT")
                  ELSE Raise(r, "TimeoutError"))

\* handlePasswordAuth, lines 335-339: fill the password, click submit
PwFillSubmit(p) ==
  /\ pass[p].pc = "PW_FILL_SUBMIT"
  /\ \E submitted \in BOOLEAN :
       Step(p, IF submitted THEN Goto(pass[p], "PW_CHECK_ERROR")
               ELSE Raise(pass[p], "SubmitError"))

\* handlePasswordAuth, lines 342-350: the inline error region
PwCheckError(p) ==
  /\ pass[p].pc = "PW_CHECK_ERROR"
  /\ \E errorVisible \in BOOLEAN :
       Step(p, IF errorVisible THEN Raise(pass[p], "PasswordAuthenticationError")
               ELSE Goto(pass[p], "STAY_SIGNED_IN_PROMPT"))

\* handleCertificateAuth, line 244: addCertAuthRoute
CertAddRoute(p) ==
  /\ pass[p].pc = "CERT_ADD_ROUTE"
  /\ LET r == Enter(pass[p], "CERTIFICATE_FLOW")
     IN \E routed \in BOOLEAN :
          LET added == addCertAuthRoute(certAuthOptionsOf(r.cred.data, r.actualEndpoint))
          IN Step(p, IF routed
                     THEN [r EXCEPT !.pc = "CERT_CHOOSERS", !.route = TRUE,
                                    !.agentOptions = added.agentOptions]
                     ELSE Raise(r, "RouteError"))

\* handleCertificateAuth, lines 247-265: the account-type and certificate
\* choosers; neither has to be there, a click on one that is may fail
CertChoosers(p) ==
  /\ pass[p].pc = "CERT_CHOOSERS"
  /\ \E outcome \in {"absent", "clicked", "clickFailed"} :
       LET r == [pass[p] EXCEPT !.choosers = outcome]
       IN Step(p, IF outcome = "clickFailed" THEN Raise(r, "ClickError")
                  ELSE Goto(r, "CERT_WAIT_RESPONSE"))

\* A wait for the certificate response that is awaited without a catch.
CertWaitResponseTimeoutIsFatal(p) ==
  /\ pass[p].pc = "CERT_WAIT_RESPONSE"
  /\ \E responded \in BOOLEAN :
       IF responded
       THEN Step(p, [pass[p] EXCEPT !.pc = "CERT_CHECK_FAILURE", !.choosers = "none", !.actualEndpoint = <<>>,
                                    !.certWait = "responded"])
       ELSE Step(p, Raise([pass[p] EXCEPT !.choosers = "none", !.actualEndpoint = <<>>, !.certWait = "timeout"],
                          "TimeoutError"))

\* handleCertificateAuth, lines 269-276, and waitForCertAuthResponse: the
\* wait ends with the response or with the timeout of page.waitForResponse,
\* which is caught and logged.  What the choosers did is not looked at
\* again.
CertWaitResponse(p) ==
  /\ pass[p].pc = "CERT_WAIT_RESPONSE"
  /\ \E responded \in BOOLEAN :
       Step(p, [pass[p] EXCEPT !.pc = "CERT_CHECK_FAILURE", !.choosers = "none", !.actualEndpoint = <<>>,
                               !.certWait = IF responded THEN "responded" ELSE "timeout"])

\* What can happen once the failure heading is visible (lines 284-305):
\* every sub-step works, or one of them fails.
DetailOutcomes ==
  {"extracted", "textContentFailed", "moreDetailsClickFailed",
   "grantPermissionsFailed", "copyClickFailed", "readClipboardFailed"}

\* grantPermissions (291-294) and the clipboard read (298-300) carry a
\* catch; textContent (284) and the two clicks (290, 297) are awaited bare.
detailFailureIsCaught(outcome) ==
  outcome \in {"extracted", "grantPermissionsFailed", "readClipboardFailed"}

\* handleCertificateAuth, lines 279-315: the failure heading and the
\* extraction of its details, then the throw of line 307
CertCheckFailure(p) ==
  /\ pass[p].pc = "CERT_CHECK_FAILURE"
  /\ \E outcome \in {"noHeading"} \cup DetailOutcomes :
       LET r == [pass[p] EXCEPT !.certFailure = outcome]
       IN Step(p, IF outcome = "noHeading" THEN Goto(r, "STAY_SIGNED_IN_PROMPT")
                  ELSE IF detailFailureIsCaught(outcome)
                       THEN Raise(r, "CertificateAuthenticationError")
                       ELSE Raise(r, "DetailsError"))

\* lines 426-429: Promise.race of the two isVisible probes, each with a
\* catch that turns a rejection into false: the value of the probe that
\* settles first
racedVisibility(heading, text, first) ==
  IF first = "heading" THEN heading ELSE text

\* handleStaySignedIn, lines 415-446: the two probes are raced; when the
\* race says visible Yes is clicked, and the click falls back to a second
\* click that is awaited without a catch.  prompt tells the step after this
\* one what was seen: "clicked", "absent" when neither probe saw the prompt,
\* "skipped" when a probe saw it and the race said not visible.
StaySignedIn(p) ==
  /\ pass[p].pc = "STAY_SIGNED_IN_PROMPT"
  /\ LET r == Enter(pass[p], "STAY_SIGNED_IN_PROMPT")
     IN \E heading \in BOOLEAN, text \in BOOLEAN, first \in {"heading", "text"} :
          LET isPromptVisible == racedVisibility(heading, text, first)
          IN IF isPromptVisible
             THEN \E outcome \in {"clicked", "fallbackClicked", "fallbackFailed"} :
                    Step(p, IF outcome = "fallbackFailed"
                            THEN Raise([r EXCEPT !.prompt = "clicked"], "ClickError")
                            ELSE [r EXCEPT !.pc = "REDIRECT_WAIT", !.prompt = "clicked"])
             ELSE Step(p, [r EXCEPT !.pc = "REDIRECT_WAIT",
                                    !.prompt = IF heading \/ text THEN "skipped"
                                               ELSE "absent"])

\* line 180: config.waitForMsalTokens !== false
waitsForTokens(config) == config.waitForMsalTokens # "false"

\* A redirect wait that looks at the URL again and again until it is one
\* it accepts.
RedirectWaitUntilAccepted(p) ==
  /\ pass[p].pc = "REDIRECT_WAIT"
  /\ LET r == IF pass[p].landed = <<>>
              THEN [Enter(pass[p], "REDIRECT_WAIT") EXCEPT !.prompt = "none"]
              ELSE pass[p]
     IN \E inTime \in BOOLEAN, currentUrl \in LandingUrls(msAuthConfig) :
          LET exact == inTime /\ currentUrl = TargetUrl
              onward == IF waitsForTokens(msAuthConfig) THEN "TOKEN_WAIT"
                        ELSE "PERSIST_SESSION"
          IN Step(p, IF exact \/ redirectAccepted(msAuthConfig, TargetUrl, currentUrl)
                     THEN [r EXCEPT !.pc = onward, !.landed = currentUrl]
                     ELSE [r EXCEPT !.landed = currentUrl])

\* lines 153-177: waitForURL(targetUrl) resolves on the exact URL; when it
\* times out the URL the page is on is looked at.  Then line 180: the token
\* wait only if not disabled.
RedirectWait(p) ==
  /\ pass[p].pc = "REDIRECT_WAIT"
  /\ LET r == [Enter(pass[p], "REDIRECT_WAIT") EXCEPT !.prompt = "none"]
     IN \E inTime \in BOOLEAN, currentUrl \in LandingUrls(msAuthConfig) :
          LET exact == inTime /\ currentUrl = TargetUrl
              onward == IF waitsForTokens(msAuthConfig) THEN "TOKEN_WAIT"
                        ELSE "PERSIST_SESSION"
          IN Step(p, IF exact \/ redirectAccepted(msAuthConfig, TargetUrl, currentUrl)
                     THEN [r EXCEPT !.pc = onward, !.landed = currentUrl]
                     ELSE Raise([r EXCEPT !.landed = currentUrl], "RedirectTimeoutError"))

\* A token wait whose timeout is thrown instead of logged.
TokenWaitTimeoutIsFatal(p) ==
  /\ pass[p].pc = "TOKEN_WAIT"
  /\ LET r == [Enter(pass[p], "TOKEN_WAIT") EXCEPT !.landed = <<>>]
     IN \E tokensFound \in BOOLEAN :
          Step(p, IF tokensFound
                  THEN [r EXCEPT !.pc = "PERSIST_SESSION", !.tokens = "found"]
                  ELSE Raise([r EXCEPT !.tokens = "timeout"], "TokenTimeoutError"))

\* lines 180-189, waitForMsalTokens: found or not, the pass goes on
TokenWait(p) ==
  /\ pass[p].pc = "TOKEN_WAIT"
  /\ LET r == [Enter(pass[p], "TOKEN_WAIT") EXCEPT !.landed = <<>>]
     IN \E tokensFound \in BOOLEAN :
          Step(p, [r EXCEPT !.pc = "PERSIST_SESSION",
                            !.tokens = IF tokensFound THEN "found" ELSE "timeout"])

\* lines 195-199: ensureDirExists, context.storageState({ path })
PersistSession(p) ==
  /\ pass[p].pc = "PERSIST_SESSION"
  /\ LET r == [Enter(pass[p], "PERSIST_SESSION") EXCEPT !.landed = <<>>]
     IN \E outcome \in {"written", "mkdirFailed", "writeFailed"} :
          IF outcome = "written"
          THEN /\ fs' = storageState(fs, r.path, now, p)
               /\ pass' = [pass EXCEPT ![p] =
                             [r EXCEPT !.pc = "SUCCESS_SCREENSHOT",
                                       !.wrote = TRUE, !.wroteAt = now]]
               /\ UNCHANGED <<now, msAuthConfig, ambient, load, exceptAuth>>
          ELSE Step(p, Raise(r, IF outcome = "mkdirFailed" THEN "MkdirError"
                                ELSE "PersistError"))

\* lines 202-207: ensureDirExists is awaited inside the try block, the
\* screenshot's own failure is caught
SuccessScreenshot(p) ==
  /\ pass[p].pc = "SUCCESS_SCREENSHOT"
  /\ LET r == Enter(pass[p], "SUCCESS_SCREENSHOT")
     IN \E dirReady \in BOOLEAN :
          Step(p, IF dirReady
                  THEN [r EXCEPT !.pc = "CLOSE_CONTEXT", !.shots = @ \cup {"success"}]
                  ELSE Raise(r, "MkdirError"))

\* lines 208-219, the catch block: ensureDirExists is awaited without a
\* catch, so its failure leaves the block in place of the caught error
FailureScreenshot(p) ==
  /\ pass[p].pc = "FAILURE_SCREENSHOT"
  /\ LET r == [Enter(pass[p], "FAILURE_SCREENSHOT")
                 EXCEPT !.actualEndpoint = <<>>, !.landed = <<>>, !.prompt = "none"]
     IN \E dirReady \in BOOLEAN :
          Step(p, IF dirReady
                  THEN [r EXCEPT !.pc = "CLOSE_CONTEXT", !.shots = @ \cup {"failed"}]
                  ELSE [r EXCEPT !.pc = "CLOSE_CONTEXT", !.err = "MkdirError"])

\* lines 220-222, finally: context.close(); a rejection replaces the outcome
CloseContext(p) ==
  /\ pass[p].pc = "CLOSE_CONTEXT"
  /\ LET r == Enter(pass[p], "CLOSE_CONTEXT")
     IN \E closed \in BOOLEAN :
          Step(p, IF closed
                  THEN [r EXCEPT !.pc = "CLOSE_BROWSER", !.context = "closed"]
                  ELSE [r EXCEPT !.pc = "CLOSE_BROWSER", !.err = "CloseContextError"])

\* lines 91-93, finally: browser.close(); then authenticate returns or throws
CloseBrowser(p) ==
  /\ pass[p].pc = "CLOSE_BROWSER"
  /\ LET r == Enter(pass[p], "CLOSE_BROWSER")
     IN \E closed \in BOOLEAN :
          Step(p, IF closed
                  THEN [r EXCEPT !.pc = IF r.err = "none" THEN "DONE" ELSE "FAILED",
                                 !.browser = "closed",
                                 !.context = IF @ = "open" THEN "closed" ELSE @]
                  ELSE [r EXCEPT !.pc = "FAILED", !.err = "CloseBrowserError"])

\* A loadStorageState that touches the session file it found valid.
LoadStorageStateTouching ==
  /\ \A p \in Procs : AtRest(p)
  /\ ~load.called
  /\ LET l == loadStorageState(msAuthConfig, ambient, fs, now)
     IN /\ load' = [called |-> TRUE, at |-> now, ok |-> l.ok, path |-> l.path,
                    error |-> l.error]
        /\ fs' = IF l.ok THEN [fs EXCEPT ![l.path].mtime = now] ELSE fs
  /\ UNCHANGED <<now, msAuthConfig, ambient, pass, exceptAuth>>

\* The caller calls loadStorageState(config) while no pass is running.
LoadStorageState ==
  /\ \A p \in Procs : AtRest(p)
  /\ ~load.called
  /\ LET l == loadStorageState(msAuthConfig, ambient, fs, now)
     IN load' = [called |-> TRUE, at |-> now, ok |-> l.ok, path |-> l.path,
                 error |-> l.error]
  /\ UNCHANGED <<now, msAuthConfig, ambient, fs, pass, exceptAuth>>

Pass(p) ==
  \/ CheckCache(p) \/ CreateProvider(p) \/ FetchCredential(p) \/ LaunchBrowser(p)
  \/ NewContext(p) \/ NewPage(p) \/ Navigate(p) \/ VerifyLoginPage(p)
  \/ EnterEmail(p) \/ PwWaitField(p) \/ PwFillSubmit(p) \/ PwCheckError(p)
  \/ CertAddRoute(p) \/ CertChoosers(p) \/ CertWaitResponse(p)
  \/ CertCheckFailure(p) \/ StaySignedIn(p) \/ RedirectWait(p) \/ TokenWait(p)
  \/ PersistSession(p) \/ SuccessScreenshot(p) \/ FailureScreenshot(p)
  \/ CloseContext(p) \/ CloseBrowser(p)

\* One caller, one call at a time.
AuthNext == Pass(1) \/ LoadStorageState

\* The one call of caller p.
FirstCall(p) == pass[p].calls = 0 /\ CheckCache(p)

(***************************************************************************)
(* One caller under the assumption that every awaited call of the browser  *)
(* driver, of the provider and of the file system returns or throws: a     *)
(* step of the pass that can be taken is taken.  The configurations are    *)
(* one with a password and the token wait, one with a certificate.         *)
(***************************************************************************)
LiveScenarios ==
  {scenario("password", "local-file", PasswordFile, "undefined", backend(TRUE, <<"p", "w", "\n">>)),
   scenario("certificate", "local-file", CertificateFile, "true", backend(TRUE, <<"0", "I">>))}

LiveInit ==
  /\ now = Epoch
  /\ \E s \in LiveScenarios :
       /\ msAuthConfig = ConfigFor(s, Undefined)
       /\ ambient = AmbientFor(s)
  /\ \E f \in InitialFiles : fs = [p \in SessionPaths |-> f]
  /\ pass = [p \in Procs |-> Idle]
  /\ load = NoLoad

\* One call of authenticate, from its first line to its return or throw.
LivePass(p) ==
  \/ FirstCall(p) \/ CreateProvider(p) \/ FetchCredential(p) \/ LaunchBrowser(p)
  \/ NewContext(p) \/ NewPage(p) \/ Navigate(p) \/ VerifyLoginPage(p)
  \/ EnterEmail(p) \/ PwWaitField(p) \/ PwFillSubmit(p) \/ PwCheckError(p)
  \/ CertAddRoute(p) \/ CertChoosers(p) \/ CertWaitResponse(p)
  \/ CertCheckFailure(p) \/ StaySignedIn(p) \/ RedirectWait(p) \/ TokenWait(p)
  \/ PersistSession(p) \/ SuccessScreenshot(p) \/ FailureScreenshot(p)
  \/ CloseContext(p) \/ CloseBrowser(p)

LiveNext == LivePass(1)

(***************************************************************************)
(* One caller whose session file, one millisecond old at the start, lives  *)
(* one hour: calls answered from the cache are followed by a call made an  *)
(* hour after the file was written.                                        *)
(***************************************************************************)
TtlInit ==
  /\ now = Epoch
  /\ \E s \in LiveScenarios :
       /\ msAuthConfig = ConfigFor(s, Hours(1))
       /\ ambient = AmbientFor(s)
  /\ \E f \in {MissingFile, PresentFile(Epoch - 1)} : fs = [p \in SessionPaths |-> f]
  /\ pass = [p \in Procs |-> Idle]
  /\ load = NoLoad

(***************************************************************************)
(* Two callers (two jobs of a pipeline) that call authenticate once each,  *)
(* for the same identity, with a password credential; the steps of the two *)
(* passes interleave in any order.  Nothing in authenticate waits for the  *)
(* other pass: there is no lock file and no exclusive open.                *)
(***************************************************************************)
RaceScenario ==
  scenario("password", "local-file", PasswordFile, "false", backend(TRUE, <<"p", "w", "\n">>))

RaceInit ==
  /\ now = Epoch
  /\ msAuthConfig = ConfigFor(RaceScenario, Undefined)
  /\ ambient = AmbientFor(RaceScenario)
  /\ \E f \in InitialFiles : fs = [p \in SessionPaths |-> f]
  /\ pass = [p \in Procs |-> Idle]
  /\ load = NoLoad

RacePass(p) ==
  \/ FirstCall(p) \/ CreateProvider(p) \/ FetchCredential(p) \/ LaunchBrowser(p)
  \/ NewContext(p) \/ NewPage(p) \/ Navigate(p) \/ VerifyLoginPage(p)
  \/ EnterEmail(p) \/ PwWaitField(p) \/ PwFillSubmit(p) \/ PwCheckError(p)
  \/ StaySignedIn(p) \/ RedirectWait(p) \/ PersistSession(p)
  \/ SuccessScreenshot(p) \/ FailureScreenshot(p)
  \/ CloseContext(p) \/ CloseBrowser(p)

RaceNext == RacePass(1) \/ RacePass(2)


(***************************************************************************)
(* Claims about the session cache and the orchestrator                     *)
(***************************************************************************)

\* The expiration a configuration asks for, in milliseconds, as the
\* specification words it: hours times 3 600 000, 24 hours when not set.
TtlMs(expiration) ==
  IF expiration.given THEN expiration.hours * 3600000 ELSE 24 * 3600000

Contains(hist, step) == \E i \in 1..Len(hist) : hist[i] = step

\* C2: isStorageStateValid returns true exactly when the file exists and its
\* age, now minus its modification time, is strictly less than the
\* expiration in milliseconds (24 hours when none is given); a missing file
\* is invalid, without an error.
C2_ValidIffYoungerThanTtl ==
  (cacheOut.called /\ cacheIn.file.state # "unreadable")
    => /\ ~cacheOut.threw
       /\ cacheOut.value <=>
            /\ cacheIn.file.state = "present"
            /\ cacheIn.clock - cacheIn.file.mtime < TtlMs(cacheIn.expiration)

\* C2 witness: no expiration given, a file one millisecond younger than 24
\* hours, found valid.
C2_Witness ==
  /\ cacheOut.called
  /\ cacheIn.expiration = Undefined
  /\ cacheIn.file.state = "present"
  /\ cacheIn.clock - cacheIn.file.mtime = (24 * 3600000) - 1
  /\ cacheOut.value

\* C1: a call of authenticate that follows a call that ended in DONE and
\* wrote the session file, and starts while that file is younger than the
\* expiration, ends in DONE after the cache check alone: no provider is
\* built, no credential fetched, no browser launched, no step of the flow
\* entered, the file is not written, and the path is that of the call before.
C1_SecondCallWithinTtlIsCached ==
  \A p \in Procs :
    LET r == pass[p]
    IN (/\ r.calls >= 2
        /\ r.prev.pc = "DONE"
        /\ r.prev.wrote
        /\ r.startedAt - r.prev.wroteAt < TtlMs(msAuthConfig.storageStateExpiration))
       => /\ r.pc = "DONE"
          /\ r.hist = <<"CHECK_CACHE">>
          /\ r.heap = <<>>
          /\ ~r.cred.ok
          /\ r.browser = "none"
          /\ ~r.wrote
          /\ r.path = r.prev.path
          /\ fs[r.path] = SessionFile(r.prev.wroteAt, p)

\* C1 witness: expiration one hour, the second call starts one millisecond
\* short of an hour after the first wrote the file, and is done.
C1_Witness ==
  /\ pass[1].calls = 2
  /\ pass[1].prev.pc = "DONE"
  /\ pass[1].prev.wrote
  /\ msAuthConfig.storageStateExpiration = Hours(1)
  /\ pass[1].startedAt - pass[1].prev.wroteAt = HourMs - 1
  /\ pass[1].pc = "DONE"

\* The steps of the full pipeline, in a pass that went through them.
RanFullPipeline(hist) ==
  /\ Contains(hist, "CREATE_PROVIDER")
  /\ Contains(hist, "FETCH_CREDENTIAL")
  /\ Contains(hist, "LAUNCH_BROWSER")
  /\ Contains(hist, "NAVIGATE")
  /\ Contains(hist, "VERIFY_LOGIN_PAGE")
  /\ Contains(hist, "ENTER_EMAIL")
  /\ Contains(hist, "PASSWORD_FLOW") \/ Contains(hist, "CERTIFICATE_FLOW")
  /\ Contains(hist, "PERSIST_SESSION")

\* C3: a pass that found the session file missing or expired goes on to the
\* pipeline; when it ends in DONE it went through the whole pipeline and
\* the file at the identity's path is the one it wrote, so that, with a
\* positive expiration, the file is valid at once and a loadStorageState
\* that follows returns that path.
C3_FullPipelineWritesValidSession ==
  \A p \in Procs :
    LET r == pass[p]
    IN r.cacheCheck = "invalid"
       => /\ r.hist = <<"CHECK_CACHE">> => r.pc = "CREATE_PROVIDER"
          /\ r.pc = "DONE"
               => /\ RanFullPipeline(r.hist)
                  /\ r.wrote
                  /\ r.path = getStorageStatePath(msAuthConfig.email, ambient.env,
                                                  ambient.platform)
                  /\ fs[r.path] = SessionFile(r.wroteAt, p)
                  /\ TtlMs(msAuthConfig.storageStateExpiration) > 0
                       => /\ now - fs[r.path].mtime
                               < TtlMs(msAuthConfig.storageStateExpiration)
                          /\ load.called => (load.ok /\ load.path = r.path)

\* C3 witness: no expiration given, a file 25 hours old, the pass ran and is
\* done, and loadStorageState returned the path.
C3_Witness ==
  /\ pass[1].pc = "DONE"
  /\ pass[1].cacheCheck = "invalid"
  /\ pass[1].seen = PresentFile(pass[1].startedAt - (25 * 3600000))
  /\ msAuthConfig.storageStateExpiration = Undefined
  /\ load.called /\ load.ok /\ load.path = pass[1].path

\* C4: when stat fails on the session file for another reason than the
\* file not existing, authenticate fails at the cache check with the storage
\* error: no provider built, no credential fetched, no browser launched;
\* a file that does not exist is found invalid, without an error.
C4_StatErrorPropagates ==
  \A p \in Procs :
    LET r == pass[p]
    IN r.calls >= 1
       => /\ r.seen.state = "unreadable"
               => /\ r.pc = "FAILED"
                  /\ r.err = "StorageAccessError"
                  /\ r.hist = <<"CHECK_CACHE">>
                  /\ r.heap = <<>>
                  /\ ~r.cred.ok
                  /\ r.browser = "none"
          /\ r.seen.state = "missing" => r.cacheCheck = "invalid"
          /\ r.cacheCheck = "error" => r.seen.state = "unreadable"

\* C4 witness: a pass that failed at the cache check on an unreadable file.
C4_Witness ==
  /\ pass[1].calls >= 1
  /\ pass[1].seen.state = "unreadable"
  /\ pass[1].pc = "FAILED"
  /\ pass[1].err = "StorageAccessError"

\* The steps that follow the credential flow.
RanAfterCredentialFlow(hist) ==
  \/ Contains(hist, "STAY_SIGNED_IN_PROMPT")
  \/ Contains(hist, "REDIRECT_WAIT")
  \/ Contains(hist, "TOKEN_WAIT")
  \/ Contains(hist, "PERSIST_SESSION")

\* C10 as claimed: a pass in which the password field never appeared, or the
\* inline error region was there after submit, ends in FAILED with the
\* password authentication error (the wait's own timeout error counted as
\* one), and enters none of the steps after the password flow.
C10_PasswordFailureOutcome ==
  \A p \in Procs :
    LET r == pass[p]
    IN (/\ r.pc \in {"DONE", "FAILED"}
        /\ r.fatal \in {"TimeoutError", "PasswordAuthenticationError"})
       => /\ r.pc = "FAILED"
          /\ r.err \in {"TimeoutError", "PasswordAuthenticationError"}
          /\ ~RanAfterCredentialFlow(r.hist)

\* C11 as claimed: in a pass with a certificate credential in which the
\* failure heading was visible, the certificate flow throws the certificate
\* authentication error and the pass ends in FAILED, whichever step of the
\* detail extraction failed.
C11_CertificateFailureOutcome ==
  \A p \in Procs :
    LET r == pass[p]
    IN (/\ r.pc \in {"DONE", "FAILED"}
        /\ r.certFailure \in DetailOutcomes)
       => /\ r.cred.type = "certificate"
          /\ r.pc = "FAILED"
          /\ r.fatal = "CertificateAuthenticationError"

\* The failures that can follow the token wait: persisting the session, the
\* success screenshot's directory, closing the context and the browser.
FailedAfterTokenWait(r) ==
  \/ r.fatal \in {"MkdirError", "PersistError"}
  \/ r.fatal = "none" /\ r.err \in {"CloseContextError", "CloseBrowserError"}

C13_FailedPassLeavesSessionFile ==
  \A p \in Procs :
    LET r == pass[p]
    IN r.calls >= 1
       => /\ r.pc = "FAILED" => (~r.wrote /\ fs[r.path] = r.seen)
          /\ r.seen.state = "present" => fs[r.path].state = "present"

\* C14 as claimed: a pass that failed inside the browser flow went through
\* the failure screenshot, and authenticate throws the error the flow
\* raised, whatever the screenshot's directory and the two closes did.
C14_OriginalErrorSurvives ==
  \A p \in Procs :
    LET r == pass[p]
    IN (/\ r.pc = "FAILED"
        /\ Contains(r.hist, "NAVIGATE")
        /\ r.fatal # "none")
       => /\ Contains(r.hist, "FAILURE_SCREENSHOT")
          /\ r.err = r.fatal

\* The errors of the steps that come before the browser.
PreflightErrors ==
  {"ConfigurationError", "UnsupportedProviderError", "CredentialRetrievalError"}

\* C19: a provider kind the factory does not know and a provider
\* configuration that fails validation end the pass at CREATE_PROVIDER, a
\* credential that cannot be fetched ends it at FETCH_CREDENTIAL; in each
\* case no browser was launched and no page was navigated, and the error is
\* the one authenticate throws.  A pass that launched a browser holds a
\* provider and a credential.
C19_PreflightBeforeBrowser ==
  \A p \in Procs :
    LET r == pass[p]
        supported == msAuthConfig.credentialProvider \in DefinedProviderKinds
    IN r.calls >= 1
       => /\ r.fatal \in PreflightErrors
               => /\ r.pc = "FAILED"
                  /\ r.err = r.fatal
                  /\ r.browser = "none"
                  /\ ~Contains(r.hist, "LAUNCH_BROWSER")
                  /\ ~Contains(r.hist, "NAVIGATE")
          /\ (Contains(r.hist, "CREATE_PROVIDER") /\ ~supported)
               => /\ r.fatal = "UnsupportedProviderError"
                  /\ r.hist = <<"CHECK_CACHE", "CREATE_PROVIDER">>
          /\ (/\ Contains(r.hist, "CREATE_PROVIDER")
              /\ supported
              /\ ~ValidConfigFor(msAuthConfig.credentialProvider,
                                 msAuthConfig.providerConfig))
               => /\ r.fatal = "ConfigurationError"
                  /\ r.hist = <<"CHECK_CACHE", "CREATE_PROVIDER">>
          /\ r.fatal = "CredentialRetrievalError"
               => r.hist = <<"CHECK_CACHE", "CREATE_PROVIDER", "FETCH_CREDENTIAL">>
          /\ r.browser # "none"
               => /\ r.provider # NoProvider
                  /\ r.cred.ok

\* C19 witness: one pass failed on a provider configuration without its
\* file path, without a provider, a credential or a browser.
C19_Witness ==
  /\ pass[1].pc = "FAILED"
  /\ pass[1].fatal = "ConfigurationError"
  /\ msAuthConfig.providerConfig.filePath = <<>>
  /\ pass[1].provider = NoProvider
  /\ pass[1].browser = "none"

\* C20: the flow a pass enters after the email is the one of the type of
\* the credential the provider returned, whatever credentialType the
\* configuration names; a credential of another type than the configured
\* one does not end the pass: the browser is launched next.
C20_DispatchOnReturnedType ==
  \A p \in Procs :
    LET r == pass[p]
    IN r.calls >= 1
       => /\ (r.pc = "CERT_ADD_ROUTE" \/ Contains(r.hist, "CERTIFICATE_FLOW"))
               => /\ r.cred.ok /\ r.cred.type = "certificate"
                  /\ ~Contains(r.hist, "PASSWORD_FLOW")
          /\ (r.pc = "PW_WAIT_FIELD" \/ Contains(r.hist, "PASSWORD_FLOW"))
               => /\ r.cred.ok /\ r.cred.type = "password"
                  /\ ~Contains(r.hist, "CERTIFICATE_FLOW")
          /\ (r.cred.ok /\ r.cred.type # msAuthConfig.credentialType)
               => /\ r.pc = "LAUNCH_BROWSER" \/ Contains(r.hist, "LAUNCH_BROWSER")
                  /\ r.fatal \notin PreflightErrors

\* C20 witness: the configuration names a password, the provider returned a
\* certificate, the pass went through the certificate flow and is done.
C20_Witness ==
  /\ msAuthConfig.credentialType = "password"
  /\ pass[1].cred.ok
  /\ pass[1].cred.type = "certificate"
  /\ Contains(pass[1].hist, "CERTIFICATE_FLOW")
  /\ pass[1].pc = "DONE"

\* C21 as claimed: in a pass with a certificate credential the route of
\* the bridge is registered before the email is filled and before any
\* chooser is clicked.
C21_RouteBeforeInteraction ==
  \A p \in Procs :
    LET r == pass[p]
    IN (r.cred.ok /\ r.cred.type = "certificate")
       => /\ Contains(r.hist, "ENTER_EMAIL") => r.route
          /\ r.pc \in {"CERT_CHOOSERS", "CERT_WAIT_RESPONSE", "CERT_CHECK_FAILURE"}
               => r.route

\* The steps that capture diagnostics and clean up.
CleanupSteps == {"FAILURE_SCREENSHOT", "CLOSE_CONTEXT", "CLOSE_BROWSER"}

\* The step of a pass at which its error was thrown: the last step entered
\* that is not diagnostics or cleanup.
ThrownAt(r) ==
  LET steps == SelectSeq(r.hist, LAMBDA step : step \notin CleanupSteps)
  IN IF r.fatal = "none" \/ steps = <<>> THEN "none" ELSE steps[Len(steps)]

\* C22: a wait for the certificate response that timed out is followed by
\* the check for the failure heading, and when no heading shows, by the
\* stay-signed-in step and the rest of the pass; choosers that are absent
\* are followed by the wait; and no error of the certificate flow comes
\* from an absent chooser or from the timeout.
C22_CertWaitTimeoutIsWarning ==
  \A p \in Procs :
    LET r == pass[p]
    IN /\ r.choosers \in {"absent", "clicked"}
            => (r.pc = "CERT_WAIT_RESPONSE" /\ r.fatal = "none")
       /\ r.certWait = "timeout"
            => (r.pc = "CERT_CHECK_FAILURE" \/ r.certFailure # "none")
       /\ (r.certWait = "timeout" /\ r.certFailure = "noHeading")
            => (r.pc = "STAY_SIGNED_IN_PROMPT" \/ Contains(r.hist, "STAY_SIGNED_IN_PROMPT"))
       /\ (r.fatal # "none" /\ r.certWait = "timeout" /\ r.certFailure \in {"none", "noHeading"})
            => Contains(r.hist, "STAY_SIGNED_IN_PROMPT")
       /\ (r.fatal # "none" /\ ThrownAt(r) = "CERTIFICATE_FLOW")
            => \/ r.fatal = "RouteError" /\ ~r.route
               \/ r.fatal = "ClickError" /\ r.choosers = "clickFailed"
               \/ r.fatal \in {"CertificateAuthenticationError", "DetailsError"}
                    /\ r.certFailure \in DetailOutcomes

\* C22 witness: a pass that saw no certificate response in time ended in
\* DONE with the session written.
C22_Witness ==
  /\ pass[1].pc = "DONE"
  /\ pass[1].certWait = "timeout"
  /\ pass[1].certFailure = "noHeading"
  /\ pass[1].wrote

\* C23 as claimed: no pass fails at STAY_SIGNED_IN_PROMPT, whether the
\* prompt is there or not and whether the click on the affirm button works
\* or not.
C23_StaySignedInNeverFatal ==
  \A p \in Procs : ThrownAt(pass[p]) # "STAY_SIGNED_IN_PROMPT"

C25_EmailOnlyOnLoginEndpoint ==
  \A p \in Procs :
    pass[p].pc = "ENTER_EMAIL"
      => pass[p].actualEndpoint = loginEndpointOf(msAuthConfig)

\* C28 as claimed: once the route is registered in a pass whose
\* configuration carries a certificate password, the TLS agent of the
\* bridge is made from the certificate and from that password.
C28_BridgeUsesConfiguredPassphrase ==
  \A p \in Procs :
    LET r == pass[p]
    IN (r.route /\ r.cred.ok /\ r.cred.type = "certificate"
          /\ msAuthConfig.providerConfig.certificatePassword # <<>>)
       => /\ r.agentOptions.pfx = r.cred.data
          /\ r.agentOptions.passphrase = msAuthConfig.providerConfig.certificatePassword

\* C32: of two passes for the same identity, neither waits for the other.
\* Two passes that both checked the file that was there before either
\* wrote come to the same verdict on the same path; a pass that found the
\* file invalid and is done has fetched a credential, used a browser and
\* written that path; the step that persists replaces whatever file is at
\* the path, the file of the other pass included, and nothing else changes
\* a file; and what a pass saw at the cache check is never looked at again.
C32_RaceOnSessionFile ==
  [][\A p \in Procs :
       /\ (pass[p].calls > 0 /\ pass'[p].calls = pass[p].calls)
            => /\ pass'[p].seen = pass[p].seen
               /\ pass'[p].cacheCheck = pass[p].cacheCheck
               /\ pass'[p].path = pass[p].path
               /\ Len(SelectSeq(pass'[p].hist, LAMBDA step : step = "CHECK_CACHE")) = 1
       /\ \A q \in Procs :
            (/\ pass'[p].calls > 0 /\ pass'[q].calls > 0
             /\ pass'[p].seen.session = 0 /\ pass'[q].seen.session = 0)
            => /\ pass'[p].cacheCheck = pass'[q].cacheCheck
               /\ pass'[p].path = pass'[q].path
       /\ (pass'[p].cacheCheck = "invalid" /\ pass'[p].pc = "DONE")
            => /\ RanFullPipeline(pass'[p].hist)
               /\ pass'[p].cred.ok
               /\ pass'[p].browser = "closed"
               /\ pass'[p].wrote
       /\ (~pass[p].wrote /\ pass'[p].wrote)
            => fs'[pass'[p].path] = SessionFile(now, p)
       /\ fs' # fs => \E q \in Procs : ~pass[q].wrote /\ pass'[q].wrote]_vars

\* C32 witness: both passes found the earlier file invalid, both are done
\* and both wrote; the file at the path is that of pass 1, which wrote
\* after pass 2.
C32_Witness ==
  /\ \A p \in Procs :
       /\ pass[p].pc = "DONE"
       /\ pass[p].cacheCheck = "invalid"
       /\ pass[p].seen.session = 0
       /\ pass[p].wrote
  /\ pass[1].path = pass[2].path
  /\ fs[pass[1].path].session = 1

\* C35 as stated: when a call that launched a browser has returned or
\* thrown, the browser and the context (if one was created) are closed; a
\* call answered from the cache never has a browser.
C35_AlwaysClosed ==
  \A p \in Procs :
    LET r == pass[p]
    IN /\ (r.cacheCheck = "valid") => (r.browser = "none" /\ r.context = "none")
       /\ (r.pc \in {"DONE", "FAILED"} /\ r.browser # "none")
          => (r.browser = "closed" /\ r.context \in {"none", "closed"})

\* C35, amended: when a call that launched a browser has returned or thrown,
\* browser.close() has been called, and the browser and the context are
\* closed unless browser.close() itself rejected, which is then the error
\* authenticate throws; a context whose own close was skipped (the page
\* could not be created) or rejected is closed with the browser; a call
\* answered from the cache never has a browser.
C35_ClosedUnlessCloseRejects ==
  \A p \in Procs :
    LET r == pass[p]
    IN /\ (r.cacheCheck = "valid") => (r.browser = "none" /\ r.context = "none")
       /\ (r.pc \in {"DONE", "FAILED"} /\ r.browser # "none")
          => /\ Contains(r.hist, "CLOSE_BROWSER")
             /\ \/ r.pc = "FAILED" /\ r.err = "CloseBrowserError"
                \/ r.browser = "closed" /\ r.context \in {"none", "closed"}
       /\ (r.pc \notin {"idle", "DONE", "FAILED"} /\ r.cacheCheck = "invalid"
           /\ Contains(r.hist, "NEW_CONTEXT") /\ ~Contains(r.hist, "CLOSE_BROWSER"))
          => r.browser = "open"

\* C35 witness: the page could not be created, context.close() was never
\* called, and the call has thrown with the browser and the context closed.
C35_Witness ==
  /\ pass[1].pc = "FAILED"
  /\ pass[1].fatal = "PageError"
  /\ ~Contains(pass[1].hist, "CLOSE_CONTEXT")
  /\ pass[1].browser = "closed"
  /\ pass[1].context = "closed"

\* C36: a call answered from the cache and a loadStorageState leave the
\* session file as it was; the file changes only when a pass persists its
\* session, and then carries the time of that step; every call measures
\* the age of the file from that time, so that a call made at or after the
\* expiration since the last write goes on to the pipeline, whatever number
\* of cache hits came before.
C36_CacheHitLeavesFileAlone ==
  [][ /\ (load' # load /\ load'.called) => fs' = fs
      /\ \A p \in Procs :
           (pass'[p] # pass[p])
           => LET r == pass'[p]
                  ttl == TtlMs(msAuthConfig.storageStateExpiration)
              IN /\ (r.hist = <<"CHECK_CACHE">>)
                    => /\ fs' = fs
                       /\ r.seen = fs[r.path]
                       /\ r.seen.state = "present"
                            => /\ (r.startedAt - r.seen.mtime < ttl)
                                    => (r.cacheCheck = "valid" /\ r.pc = "DONE")
                               /\ (r.startedAt - r.seen.mtime >= ttl)
                                    => (r.cacheCheck = "invalid"
                                        /\ r.pc = "CREATE_PROVIDER")
                 /\ (fs' # fs)
                    => /\ r.wrote /\ ~pass[p].wrote
                       /\ fs'[r.path].mtime = now'
                       /\ r.cacheCheck = "invalid"
    ]_vars

\* C36 witness: the file was one millisecond old, the first call was
\* answered from the cache, and the second call, one hour after the file
\* was written, ran the pipeline and wrote the file.
C36_Witness ==
  /\ pass[1].calls = 2
  /\ pass[1].prev.pc = "DONE"
  /\ ~pass[1].prev.wrote
  /\ pass[1].seen = PresentFile(Epoch - 1)
  /\ pass[1].startedAt - pass[1].seen.mtime = HourMs
  /\ pass[1].pc = "DONE"
  /\ pass[1].wrote

\* C37: a loadStorageState called at the time of a call of authenticate,
\* on the session file that call found, returns the path exactly when the
\* call was answered from the cache, and that path is the call's; it throws
\* "does not exist or has expired" exactly when the call went on to the
\* pipeline, and the storage error exactly when the call failed with it.
C37_LoadAgreesWithAuthenticate ==
  \A p \in Procs :
    LET r == pass[p]
    IN (/\ load.called
        /\ r.calls >= 1
        /\ AtRest(p)
        /\ load.at = r.startedAt
        /\ fs[r.path] = r.seen)
       => /\ load.ok <=> r.cacheCheck = "valid"
          /\ load.ok => (load.path = r.path /\ r.hist = <<"CHECK_CACHE">>)
          /\ (load.error = "does not exist or has expired")
               <=> (r.cacheCheck = "invalid" /\ Contains(r.hist, "CREATE_PROVIDER"))
          /\ (load.error = "StorageAccessError") <=> r.cacheCheck = "error"

\* C37 witness: expiration one hour and a file one hour old; the call went
\* on to the pipeline and failed before it wrote, and loadStorageState threw
\* "does not exist or has expired".
C37_Witness ==
  /\ load.called
  /\ load.at = pass[1].startedAt
  /\ msAuthConfig.storageStateExpiration = Hours(1)
  /\ pass[1].seen = PresentFile(pass[1].startedAt - HourMs)
  /\ fs[pass[1].path] = pass[1].seen
  /\ pass[1].pc = "FAILED"
  /\ pass[1].cacheCheck = "invalid"
  /\ load.error = "does not exist or has expired"

\* C39: whenever one of the two visibility probes reports the prompt
\* visible the step treats the prompt as present and clicks Yes, whichever
\* probe settles first: the prompt is never skipped while a probe saw it.
C39_DetectionOrderIndependent ==
  \A p \in Procs : pass[p].prompt # "skipped"

\* C33: every call of authenticate that has started ends in DONE or in
\* FAILED.
C33_EveryPassEnds ==
  \A p \in Procs : (~AtRest(p)) ~> (pass[p].pc \in {"DONE", "FAILED"})

\* C33 witness: a call that went through the certificate flow and the
\* token wait has ended in DONE.
C33_Witness ==
  /\ pass[1].calls = 1
  /\ pass[1].pc = "DONE"
  /\ Contains(pass[1].hist, "CERTIFICATE_FLOW")
  /\ Contains(pass[1].hist, "TOKEN_WAIT")

\* The place of each step in the order of the pass; the two credential
\* flows share one place.
StepOrder ==
  <<{"CHECK_CACHE"}, {"CREATE_PROVIDER"}, {"FETCH_CREDENTIAL"}, {"LAUNCH_BROWSER"},
    {"NEW_CONTEXT"}, {"NEW_PAGE"}, {"NAVIGATE"}, {"VERIFY_LOGIN_PAGE"},
    {"ENTER_EMAIL"}, {"PASSWORD_FLOW", "CERTIFICATE_FLOW"},
    {"STAY_SIGNED_IN_PROMPT"}, {"REDIRECT_WAIT"}, {"TOKEN_WAIT"},
    {"PERSIST_SESSION"}, {"SUCCESS_SCREENSHOT"}, {"FAILURE_SCREENSHOT"},
    {"CLOSE_CONTEXT"}, {"CLOSE_BROWSER"}>>

AllSteps == UNION {StepOrder[k] : k \in 1..Len(StepOrder)}

rank == [step \in AllSteps |-> CHOOSE k \in 1..Len(StepOrder) : step \in StepOrder[k]]

\* The steps of a pass are entered in order, each at most once, and at
\* most one of the two credential flows.
InOrder(hist) ==
  \A i \in 1..Len(hist) :
    /\ hist[i] \in AllSteps
    /\ i > 1 => rank[hist[i - 1]] < rank[hist[i]]

\* C26: in every pass the steps are entered in the order of the pipeline,
\* none twice, and one credential flow at most; a pass that got past the
\* email entered exactly one of the two flows; and once an error has been
\* thrown, every step the same pass enters afterwards is the failure
\* screenshot or one of the two closes.
C26_LinearNoRetries ==
  [][\A p \in Procs :
       pass'[p] # pass[p] =>
         /\ InOrder(pass'[p].hist)
         /\ RanAfterCredentialFlow(pass'[p].hist)
              => (Contains(pass'[p].hist, "PASSWORD_FLOW")
                    \/ Contains(pass'[p].hist, "CERTIFICATE_FLOW"))
         /\ (/\ pass[p].fatal # "none"
             /\ pass'[p].calls = pass[p].calls
             /\ pass'[p].hist # pass[p].hist)
              => /\ pass'[p].hist \in {Append(pass[p].hist, step) : step \in CleanupSteps}
                 /\ pass'[p].fatal = pass[p].fatal
                 /\ pass'[p].wrote = pass[p].wrote]_vars

\* C26 witness: a pass failed at the redirect after the password flow and
\* went through the failure screenshot and both closes.
C26_Witness ==
  /\ pass[1].pc = "FAILED"
  /\ pass[1].fatal = "RedirectTimeoutError"
  /\ Contains(pass[1].hist, "PASSWORD_FLOW")
  /\ Len(pass[1].hist) >= 3
  /\ SubSeq(pass[1].hist, Len(pass[1].hist) - 2, Len(pass[1].hist))
       = <<"FAILURE_SCREENSHOT", "CLOSE_CONTEXT", "CLOSE_BROWSER">>

(***************************************************************************)
(* The certificate route bridge (src/src/certAuth.ts)                      *)
(*                                                                         *)
(* bridgeIn is an intercepted request and what the upstream server would   *)
(* answer; net is how far the upstream exchange has come; bridge is the    *)
(* handler: the request it sent, the promise of doCertAuthPost, the text   *)
(* collected so far, and what became of the route.                         *)
(***************************************************************************)
\* Chunk.toString("utf-8"), on code points: an ASCII byte is a character, a
\* lead byte with its continuation byte is one, any other byte is U+FFFD.
ReplacementChar == 65533

isContinuation(b) == b >= 128 /\ b <= 191
isLeadOfTwo(b) == b >= 194 /\ b <= 223

RECURSIVE utf8Decode(_)
utf8Decode(bytes) ==
  IF bytes = <<>> THEN <<>>
  ELSE IF Head(bytes) < 128 THEN <<Head(bytes)>> \o utf8Decode(Tail(bytes))
  ELSE IF isLeadOfTwo(Head(bytes)) /\ Len(bytes) >= 2 /\ isContinuation(bytes[2])
       THEN <<((Head(bytes) % 32) * 64) + (bytes[2] % 64)>>
              \o utf8Decode(Tail(Tail(bytes)))
       ELSE <<ReplacementChar>> \o utf8Decode(Tail(bytes))

\* The bytes route.fulfill sends for a body given as a string.
RECURSIVE utf8Encode(_)
utf8Encode(text) ==
  IF text = <<>> THEN <<>>
  ELSE LET c == Head(text)
       IN (IF c < 128 THEN <<c>>
           ELSE IF c < 2048 THEN <<192 + (c \div 64), 128 + (c % 64)>>
           ELSE <<224 + (c \div 4096), 128 + ((c \div 64) % 64), 128 + (c % 64)>>)
          \o utf8Encode(Tail(text))

RECURSIVE flatten(_)
flatten(chunks) ==
  IF chunks = <<>> THEN <<>> ELSE Head(chunks) \o flatten(Tail(chunks))

\* request.postData() is null for a request without a body.
NoPostData == [given |-> FALSE, text |-> <<>>]
PostData(text) == [given |-> TRUE, text |-> text]

NotSent == [sent |-> FALSE, method |-> "none", url |-> "none", headers |-> "none",
            body |-> NoPostData, ended |-> FALSE]

NoResponse == [status |-> 0, headers |-> "none", body |-> <<>>]

\* The handler before it is called.
BridgeIdle ==
  [pc |-> "start", upstream |-> NotSent, promise |-> "pending",
   listening |-> FALSE, data |-> <<>>, resp |-> NoResponse, error |-> "none",
   fulfilled |-> FALSE, aborted |-> FALSE, fulfilledWith |-> NoResponse]

NetIdle == [phase |-> "idle", delivered |-> 0]

\* doCertAuthPost, lines 69-79 and 105-106: the request is made with method
\* POST and the headers of the intercepted one, listeners are attached, the
\* post data is written; write(null) throws inside the promise executor.
doCertAuthPost(request) ==
  LET req == [sent |-> TRUE, method |-> "POST", url |-> request.url,
              headers |-> request.headers, body |-> request.postData,
              ended |-> request.postData.given]
  IN IF request.postData.given
     THEN [BridgeIdle EXCEPT !.pc = "awaiting", !.upstream = req]
     ELSE [BridgeIdle EXCEPT !.pc = "awaiting", !.upstream = req,
                             !.promise = "rejected", !.error = "TypeError"]

\* reject(err): a promise settles once
rejectPromise(b, error) ==
  IF b.promise = "pending" THEN [b EXCEPT !.promise = "rejected", !.error = error]
  ELSE b

\* resolve({ status, headers, body: data })
resolvePromise(b, status, headers) ==
  IF b.promise = "pending"
  THEN [b EXCEPT !.promise = "resolved",
                 !.resp = [status |-> status, headers |-> headers, body |-> b.data]]
  ELSE b

\* req.on("response"), lines 81-103
onResponse(b, status) ==
  IF status >= 400 THEN rejectPromise(b, "Cert auth request failed")
  ELSE [b EXCEPT !.listening = TRUE]

\* res.on("data"), lines 92-94
onData(b, chunk) ==
  IF b.listening THEN [b EXCEPT !.data = @ \o utf8Decode(chunk)] ELSE b

\* res.on("end"), lines 96-102
onEnd(b, status, headers) ==
  IF b.listening THEN resolvePromise(b, status, headers) ELSE b

(***************************************************************************)
(* The bridge as a state machine: one intercepted request, the events of   *)
(* the upstream exchange in the order the network produces them, and the   *)
(* handler's continuation once the promise has settled.                    *)
(***************************************************************************)
MaxChunks == 2

\* Bodies: ASCII, a two-byte character, both; cut into chunks at any byte.
BodySamples == {<<>>, <<97>>, <<195, 169>>, <<97, 195, 169>>}

ChunkingsOf(body) ==
  (IF body = <<>> THEN {<<>>} ELSE {<<body>>}) \cup
  {<<SubSeq(body, 1, k), SubSeq(body, k + 1, Len(body))>> : k \in 1..(Len(body) - 1)}

StatusSamples == {200, 302, 400, 500}

RequestSamples ==
  [method : {"GET", "POST"}, url : {"https://certauth.login/x"},
   headers : {"h"}, postData : {NoPostData, PostData(<<97>>)}]

BridgeInit ==
  /\ \E body \in BodySamples :
       bridgeIn \in [request : RequestSamples,
                     status : StatusSamples,
                     headers : {"rh"},
                     chunks : {c \in ChunkingsOf(body) : Len(c) <= MaxChunks}]
  /\ net = NetIdle
  /\ bridge = BridgeIdle

BridgeParked ==
  /\ bridgeIn = <<>>
  /\ net = NetIdle
  /\ bridge = BridgeIdle

\* certAuthHandler, lines 43-48: the route handler is called and calls
\* doCertAuthPost
HandleRoute ==
  /\ bridge.pc = "start"
  /\ bridge' = doCertAuthPost(bridgeIn.request)
  /\ UNCHANGED <<bridgeIn, net, exceptBridge>>

\* The request fails before any response: req emits "error".
UpstreamRefuses ==
  /\ bridge.upstream.ended
  /\ net.phase = "idle"
  /\ net' = [net EXCEPT !.phase = "errored"]
  /\ bridge' = rejectPromise(bridge, "RequestError")
  /\ UNCHANGED <<bridgeIn, exceptBridge>>

\* The response head arrives: req emits "response".
UpstreamResponds ==
  /\ bridge.upstream.ended
  /\ net.phase = "idle"
  /\ net' = [net EXCEPT !.phase = "responded"]
  /\ bridge' = onResponse(bridge, bridgeIn.status)
  /\ UNCHANGED <<bridgeIn, exceptBridge>>

\* A chunk of the body arrives: res emits "data".
UpstreamData ==
  /\ net.phase = "responded"
  /\ net.delivered < Len(bridgeIn.chunks)
  /\ net' = [net EXCEPT !.delivered = @ + 1]
  /\ bridge' = onData(bridge, bridgeIn.chunks[net.delivered + 1])
  /\ UNCHANGED <<bridgeIn, exceptBridge>>

\* The body is complete: res emits "end".
UpstreamEnd ==
  /\ net.phase = "responded"
  /\ net.delivered = Len(bridgeIn.chunks)
  /\ net' = [net EXCEPT !.phase = "ended"]
  /\ bridge' = onEnd(bridge, bridgeIn.status, bridgeIn.headers)
  /\ UNCHANGED <<bridgeIn, exceptBridge>>

\* The socket fails after the response head and before the end of the
\* body: req emits "error".
UpstreamResets ==
  /\ net.phase = "responded"
  /\ net' = [net EXCEPT !.phase = "errored"]
  /\ bridge' = rejectPromise(bridge, "ECONNRESET")
  /\ UNCHANGED <<bridgeIn, exceptBridge>>

\* The connection is closed after the response head and before the whole
\* body has arrived: res is destroyed and emits "close"; it emits "error" only to
\* listeners, and the handler attached none; neither "end" nor an "error"
\* on req follows.
UpstreamCloses ==
  /\ net.phase = "responded"
  /\ net.delivered < Len(bridgeIn.chunks)
  /\ net' = [net EXCEPT !.phase = "closed"]
  /\ UNCHANGED <<bridge, bridgeIn, exceptBridge>>

\* certAuthHandler, lines 49-52: the promise resolved, route.fulfill(resp);
\* if fulfill throws the catch block is entered
Fulfill ==
  /\ bridge.pc = "awaiting"
  /\ bridge.promise = "resolved"
  /\ \E accepted \in BOOLEAN :
       bridge' = IF accepted
                 THEN [bridge EXCEPT !.pc = "done", !.fulfilled = TRUE,
                                     !.fulfilledWith = bridge.resp]
                 ELSE [bridge EXCEPT !.pc = "catch", !.error = "FulfillError"]
  /\ UNCHANGED <<bridgeIn, net, exceptBridge>>

\* certAuthHandler, lines 53-57: the promise rejected or fulfill threw,
\* route.abort("failed")
Abort ==
  /\ \/ bridge.pc = "awaiting" /\ bridge.promise = "rejected"
     \/ bridge.pc = "catch"
  /\ bridge' = [bridge EXCEPT !.pc = "done", !.aborted = TRUE]
  /\ UNCHANGED <<bridgeIn, net, exceptBridge>>

BridgeNext ==
  \/ HandleRoute \/ UpstreamRefuses \/ UpstreamResponds \/ UpstreamData
  \/ UpstreamEnd \/ UpstreamResets \/ UpstreamCloses \/ Fulfill \/ Abort

(***************************************************************************)
(* Claims about the bridge                                                 *)
(***************************************************************************)

\* C38: every intercepted request is in the end fulfilled or aborted,
\* whatever the upstream does: answer, fail, or close the connection between
\* the response head and the end of the body; also a request without a body.
C38_EveryRequestSettles ==
  (bridge.pc = "awaiting") ~> (bridge.fulfilled \/ bridge.aborted)

\* The upstream exchange is over and the handler has no step left to take.
BridgeAtRest ==
  /\ bridge.pc \notin {"start", "catch"}
  /\ net.phase \in {"ended", "errored", "closed"}
       \/ (net.phase = "responded" /\ bridgeIn.status >= 400)
       \/ ~bridge.upstream.ended
  /\ ~(bridge.pc = "awaiting" /\ bridge.promise # "pending")

\* The upstream exchange ended in a transport error or a non-success status.
UpstreamFailed ==
  \/ net.phase \in {"errored", "closed"}
  \/ net.phase \in {"responded", "ended"} /\ bridgeIn.status >= 400

\* C9 as claimed: when the upstream exchange ended in a transport error or
\* a non-success status, the request is aborted and not fulfilled; a
\* request is fulfilled only with the status, the headers and the complete
\* body of a successful upstream response; none is both fulfilled and
\* aborted.
C9_BridgeFailureAborts ==
  /\ ~(bridge.fulfilled /\ bridge.aborted)
  /\ UpstreamFailed => ~bridge.fulfilled
  /\ (UpstreamFailed /\ BridgeAtRest) => bridge.aborted
  /\ bridge.fulfilled
       => /\ net.phase = "ended"
          /\ bridgeIn.status < 400
          /\ bridge.fulfilledWith.status = bridgeIn.status
          /\ bridge.fulfilledWith.headers = bridgeIn.headers
          /\ utf8Encode(bridge.fulfilledWith.body) = flatten(bridgeIn.chunks)

\* C27 as claimed: the upstream request has the URL, the method, the
\* headers and the body of the intercepted one and is sent whether or not
\* there is a body, and a request is fulfilled with the status, the headers
\* and the body of the upstream response.
C27_ReplayFidelity ==
  /\ bridge.pc # "start"
       => /\ bridge.upstream.sent
          /\ bridge.upstream.ended
          /\ bridge.upstream.url = bridgeIn.request.url
          /\ bridge.upstream.method = bridgeIn.request.method
          /\ bridge.upstream.headers = bridgeIn.request.headers
          /\ bridge.upstream.body = bridgeIn.request.postData
  /\ bridge.fulfilled
       => /\ bridge.fulfilledWith.status = bridgeIn.status
          /\ bridge.fulfilledWith.headers = bridgeIn.headers
          /\ utf8Encode(bridge.fulfilledWith.body) = flatten(bridgeIn.chunks)

(***************************************************************************)
(* Configuration from the environment (src/src/types.ts, lines 199-346)    *)
(*                                                                         *)
(* process.env is a record over the names of EnvVars.  A value is a name   *)
(* or a word, with "" for a variable that is not set (the code tests each  *)
(* with ! or ||, which take unset and empty alike); the email, the         *)
(* expiration and the token timeout are text, <<>> when not set.           *)
(***************************************************************************)
NoEnv ==
  [EMAIL |-> <<>>, CREDENTIAL_TYPE |-> "", CREDENTIAL_PROVIDER |-> "",
   KEYVAULT_ENDPOINT |-> "", KEYVAULT_SECRET_NAME |-> "", LOCAL_FILE_PATH |-> "",
   CERTIFICATE_PASSWORD |-> "", ENV_VARIABLE_NAME |-> "", OUTPUT_DIR |-> "",
   LOGIN_ENDPOINT |-> "", STORAGE_STATE_EXPIRATION |-> <<>>,
   GITHUB_REPOSITORY |-> "", GITHUB_SECRET_NAME |-> "", GITHUB_TOKEN |-> "",
   SYSTEM_DEBUG |-> "", WAIT_FOR_MSAL_TOKENS |-> "", MSAL_TOKEN_TIMEOUT |-> <<>>,
   MS_AUTH_PASSWORD_INLINE |-> ""]

\* parseInt(text): leading whitespace, a sign, then as many digits as there
\* are; NaN when there is none.
digitValue(c) == (CHOOSE i \in 1..10 : Digits[i] = c) - 1

RECURSIVE digitsValue(_, _)
digitsValue(text, acc) ==
  IF text = <<>> \/ Head(text) \notin DigitChars THEN acc
  ELSE digitsValue(Tail(text), (acc * 10) + digitValue(Head(text)))

NaN == [nan |-> TRUE, value |-> 0]

parseInt(text) ==
  LET t == trimStart(text)
      signed == t # <<>> /\ Head(t) \in {"-", "+"}
      body == IF signed THEN Tail(t) ELSE t
  IN IF body = <<>> \/ Head(body) \notin DigitChars THEN NaN
     ELSE [nan |-> FALSE,
           value |-> IF signed /\ Head(t) = "-" THEN 0 - digitsValue(body, 0)
                     ELSE digitsValue(body, 0)]

\* An expiration that is not a number.
NaNHours == [given |-> TRUE, nan |-> TRUE, hours |-> 0]

loaded(config) == [ok |-> TRUE, config |-> config, error |-> "none"]
notLoaded(error) == [ok |-> FALSE, config |-> <<>>, error |-> error]

loadAzureKeyVaultConfigFromEnv(env) ==
  IF env.KEYVAULT_ENDPOINT = "" THEN notLoaded("KEYVAULT_ENDPOINT is required")
  ELSE IF env.KEYVAULT_SECRET_NAME = "" THEN notLoaded("KEYVAULT_SECRET_NAME is required")
  ELSE loaded([keyVaultEndpoint |-> env.KEYVAULT_ENDPOINT,
               secretName |-> env.KEYVAULT_SECRET_NAME])

loadLocalFileConfigFromEnv(env) ==
  IF env.LOCAL_FILE_PATH = "" THEN notLoaded("LOCAL_FILE_PATH is required")
  ELSE loaded([filePath |-> env.LOCAL_FILE_PATH,
               certificatePassword |-> env.CERTIFICATE_PASSWORD])

loadEnvironmentConfigFromEnv(env) ==
  IF env.ENV_VARIABLE_NAME = "" THEN notLoaded("ENV_VARIABLE_NAME is required")
  ELSE loaded([variableName |-> env.ENV_VARIABLE_NAME,
               passwordVariableName |-> env.CERTIFICATE_PASSWORD])

loadGitHubSecretsConfigFromEnv(env) ==
  IF env.GITHUB_REPOSITORY = "" THEN notLoaded("GITHUB_REPOSITORY is required")
  ELSE IF env.GITHUB_SECRET_NAME = "" THEN notLoaded("GITHUB_SECRET_NAME is required")
  ELSE loaded([repository |-> env.GITHUB_REPOSITORY,
               secretName |-> env.GITHUB_SECRET_NAME,
               token |-> env.GITHUB_TOKEN])

loadProviderConfigFromEnv(providerType, env) ==
  CASE providerType = "azure-keyvault" -> loadAzureKeyVaultConfigFromEnv(env)
    [] providerType = "local-file" -> loadLocalFileConfigFromEnv(env)
    [] providerType = "environment" -> loadEnvironmentConfigFromEnv(env)
    [] providerType = "github-secrets" -> loadGitHubSecretsConfigFromEnv(env)
    [] OTHER -> notLoaded("Unsupported credential provider")

\* The configuration before anything is loaded.
NoConfig ==
  [email |-> <<>>, credentialType |-> "", credentialProvider |-> "",
   providerConfig |-> <<>>, outputDir |-> "", storageStateExpiration |-> Undefined,
   loginEndpoint |-> "", headless |-> "undefined",
   waitForMsalTokens |-> "undefined", msalTokenTimeout |-> 0]

\* loadConfigFromEnv.  The object it returns has no waitForMsalTokens and no
\* msalTokenTimeout: both read as undefined (the timeout is the number 0
\* here, which stands for every value that || takes as not there).
loadConfigFromEnv(env) ==
  IF env.EMAIL = <<>> THEN notLoaded("MS_AUTH_EMAIL environment variable is required")
  ELSE LET credentialType == IF env.CREDENTIAL_TYPE = "" THEN "password"
                             ELSE env.CREDENTIAL_TYPE
           credentialProvider == IF env.CREDENTIAL_PROVIDER = "" THEN "azure-keyvault"
                                 ELSE env.CREDENTIAL_PROVIDER
           providerConfig == loadProviderConfigFromEnv(credentialProvider, env)
           hours == parseInt(env.STORAGE_STATE_EXPIRATION)
       IN IF ~providerConfig.ok THEN providerConfig
          ELSE loaded([NoConfig EXCEPT
                 !.email = env.EMAIL,
                 !.credentialType = credentialType,
                 !.credentialProvider = credentialProvider,
                 !.providerConfig = providerConfig.config,
                 !.outputDir = env.OUTPUT_DIR,
                 !.storageStateExpiration =
                     IF env.STORAGE_STATE_EXPIRATION = <<>>
                     THEN Hours(DefaultExpirationHours)
                     ELSE IF hours.nan THEN NaNHours ELSE Hours(hours.value),
                 !.loginEndpoint = env.LOGIN_ENDPOINT])

\* /^[^\s@]+@[^\s@]+\.[^\s@]+$/ : one "@", not first; a "." after it with
\* something in between and something behind; no whitespace anywhere.
emailRegexTest(email) ==
  \E i \in 2..Len(email) :
    /\ email[i] = "@"
    /\ \A k \in (1..Len(email)) \ {i} : email[k] # "@" /\ ~isWhitespace(email[k])
    /\ \E j \in (i + 2)..(Len(email) - 1) : email[j] = "."

\* A validation that does not look at the form of the email.
validateConfigWithoutEmailFormat(config) ==
  IF config.email = <<>> THEN "Email is required"
  ELSE IF config.credentialType = "" THEN "Credential type is required"
  ELSE IF config.credentialProvider = "" THEN "Credential provider is required"
  ELSE IF config.providerConfig = <<>> THEN "Provider configuration is required"
  ELSE "ok"

\* validateConfig: "ok", or the message of the error it throws
validateConfig(config) ==
  IF config.email = <<>> THEN "Email is required"
  ELSE IF config.credentialType = "" THEN "Credential type is required"
  ELSE IF config.credentialProvider = "" THEN "Credential provider is required"
  ELSE IF config.providerConfig = <<>> THEN "Provider configuration is required"
  ELSE IF ~emailRegexTest(config.email) THEN "Invalid email format"
  ELSE "ok"

\* performAuthenticationFlow, line 181: config.msalTokenTimeout || 30000
DefaultMsalTokenTimeout == 30000

msalTokenTimeoutOf(config) ==
  IF config.msalTokenTimeout = 0 THEN DefaultMsalTokenTimeout
  ELSE config.msalTokenTimeout

(***************************************************************************)
(* The command line: ms-auth login (src/unnamed/part_005)                  *)
(*                                                                         *)
(* cliIn.argv holds the value given to each option, "" (<<>> for the       *)
(* email) for an option that is not on the command line; cliIn.env is      *)
(* process.env when the process starts.                                    *)
(***************************************************************************)
NoArgv ==
  [email |-> <<>>, credentialType |-> "", credentialProvider |-> "",
   keyvaultEndpoint |-> "", keyvaultSecret |-> "", localFile |-> "",
   envVariable |-> "", password |-> "", githubRepo |-> "", githubSecret |-> "",
   outputDir |-> "", headful |-> FALSE, debug |-> FALSE]

\* commander: the options object of the action; an option declared with a
\* default value holds it when it is not on the command line.
commanderOptions(argv) ==
  [argv EXCEPT
     !.credentialType = IF @ = "" THEN "password" ELSE @,
     !.credentialProvider = IF @ = "" THEN "azure-keyvault" ELSE @]

\* The action, lines 68-102: the options are written into process.env.
applyOptions(options, env) ==
  LET e1 == IF options.debug THEN [env EXCEPT !.SYSTEM_DEBUG = "true"] ELSE env
      e2 == IF options.email # <<>> THEN [e1 EXCEPT !.EMAIL = options.email] ELSE e1
      e3 == IF options.credentialType # ""
            THEN [e2 EXCEPT !.CREDENTIAL_TYPE = options.credentialType] ELSE e2
      e4 == IF options.password # ""
            THEN [e3 EXCEPT !.CREDENTIAL_PROVIDER = "environment",
                            !.ENV_VARIABLE_NAME = "MS_AUTH_PASSWORD_INLINE",
                            !.MS_AUTH_PASSWORD_INLINE = options.password]
            ELSE IF options.credentialProvider # ""
                 THEN [e3 EXCEPT !.CREDENTIAL_PROVIDER = options.credentialProvider]
                 ELSE e3
      set(e, name, value) == IF value # "" THEN [e EXCEPT ![name] = value] ELSE e
  IN set(set(set(set(set(set(set(e4,
       "KEYVAULT_ENDPOINT", options.keyvaultEndpoint),
       "KEYVAULT_SECRET_NAME", options.keyvaultSecret),
       "LOCAL_FILE_PATH", options.localFile),
       "ENV_VARIABLE_NAME", options.envVariable),
       "GITHUB_REPOSITORY", options.githubRepo),
       "GITHUB_SECRET_NAME", options.githubSecret),
       "OUTPUT_DIR", options.outputDir)

ValidEmail == <<"u", "@", "x", ".", "y">>
EmailSamples == {ValidEmail, <<"u", "@", "x">>, <<"u", " ", "@", "x", ".", "y">>}

ArgvSamples ==
  {[NoArgv EXCEPT !.email = e, !.credentialType = t, !.credentialProvider = p,
                  !.password = pw, !.localFile = f, !.headful = h] :
     e \in {<<>>} \cup EmailSamples, t \in {"", "certificate"},
     p \in {"", "local-file"}, pw \in {"", "pw"}, f \in {"", "c.txt"},
     h \in BOOLEAN}

\* Environments: the two token-wait variables are set one at a time.
EnvSamples ==
  {[NoEnv EXCEPT !.EMAIL = e, !.CREDENTIAL_TYPE = t, !.CREDENTIAL_PROVIDER = p,
                 !.KEYVAULT_ENDPOINT = kv[1], !.KEYVAULT_SECRET_NAME = kv[2],
                 !.ENV_VARIABLE_NAME = v,
                 !.STORAGE_STATE_EXPIRATION = x,
                 !.WAIT_FOR_MSAL_TOKENS = w[1], !.MSAL_TOKEN_TIMEOUT = w[2]] :
     e \in {<<>>, ValidEmail}, t \in {"", "certificate"},
     p \in {"", "environment", "vault"},
     kv \in {<<"", "">>, <<"https://kv", "s">>}, v \in {"", "P"},
     x \in {<<>>, <<"1">>, <<"x">>},
     w \in {<<"", <<>>>>, <<"false", <<>>>>, <<"", <<"6", "0", "0", "0", "0">>>>}}

\* What authenticate can reject with.
AuthenticateErrors == {"CredentialRetrievalError", "PasswordAuthenticationError"}

CliIdle ==
  [pc |-> "start", options |-> NoArgv, env |-> NoEnv, config |-> NoConfig,
   authCalls |-> 0, authResult |-> "none", error |-> "none", exitCode |-> 0]

CliInit ==
  /\ \E a \in ArgvSamples, e \in EnvSamples : cliIn = [argv |-> a, env |-> e]
  /\ cli = [CliIdle EXCEPT !.env = cliIn.env]

CliParked ==
  /\ cliIn = <<>>
  /\ cli = <<>>

\* process.exit(code)
exit(c, code) == [c EXCEPT !.pc = "exited", !.exitCode = code]

\* The login action, lines 66-118, up to the call of authenticate; an error
\* thrown on the way is caught at line 122 and the process exits with 1.
LoginAction ==
  /\ cli.pc = "start"
  /\ LET options == commanderOptions(cliIn.argv)
         env == applyOptions(options, cli.env)
         c == [cli EXCEPT !.options = options, !.env = env]
         made == loadConfigFromEnv(env)
         config == [made.config EXCEPT
                      !.headless = IF options.headful THEN "false" ELSE "true"]
     IN cli' = IF ~made.ok THEN exit([c EXCEPT !.error = made.error], 1)
               ELSE IF validateConfig(config) # "ok"
                    THEN exit([c EXCEPT !.config = config,
                                        !.error = validateConfig(config)], 1)
                    ELSE [c EXCEPT !.pc = "authenticating", !.config = config,
                                   !.authCalls = @ + 1]
  /\ UNCHANGED <<cliIn, exceptCli>>

\* lines 118-121: authenticate(config, url) resolved
AuthenticateResolves ==
  /\ cli.pc = "authenticating"
  /\ cli' = exit([cli EXCEPT !.authResult = "resolved"], 0)
  /\ UNCHANGED <<cliIn, exceptCli>>

\* lines 122-130: authenticate(config, url) rejected
AuthenticateRejects ==
  /\ cli.pc = "authenticating"
  /\ \E error \in AuthenticateErrors :
       cli' = exit([cli EXCEPT !.authResult = "rejected", !.error = error], 1)
  /\ UNCHANGED <<cliIn, exceptCli>>

CliNext == LoginAction \/ AuthenticateResolves \/ AuthenticateRejects


(***************************************************************************)
(* Claims about the command line and the configuration loader              *)
(***************************************************************************)

\* C15: the process exits with 0 exactly when the configuration was loaded
\* and validated and authenticate resolved, and with 1 when any of the
\* three threw; authenticate is only ever called with a configuration that
\* passes validation, whose email has the form of an email address.
C15_ExitCodeAndValidation ==
  /\ cli.pc = "exited"
       => /\ cli.exitCode \in {0, 1}
          /\ cli.exitCode = 0 <=> (cli.error = "none" /\ cli.authResult = "resolved")
          /\ cli.exitCode = 1 <=> cli.error # "none"
          /\ cli.authResult = "resolved" => cli.error = "none"
  /\ (cli.authCalls > 0 \/ cli.pc = "authenticating" \/ cli.authResult # "none")
       => /\ cli.authCalls = 1
          /\ cli.config # NoConfig
          /\ cli.config.email # <<>>
          /\ emailRegexTest(cli.config.email)
          /\ cli.config.credentialType # ""
          /\ cli.config.credentialProvider \in DefinedProviderKinds
          /\ cli.config.providerConfig # <<>>
  /\ (cli.pc # "start" /\ ~emailRegexTest(cli.env.EMAIL))
       => /\ cli.pc = "exited"
          /\ cli.exitCode = 1
          /\ cli.authCalls = 0

\* C15 witness: an email without a dot after the "@" on the command line,
\* everything else in place: the process exited with 1 on the validation
\* error and authenticate was not called.
C15_Witness ==
  /\ cliIn.argv.email = <<"u", "@", "x">>
  /\ cli.pc = "exited"
  /\ cli.exitCode = 1
  /\ cli.error = "Invalid email format"
  /\ cli.authCalls = 0

\* C16 as claimed: without --password and without --credential-provider the
\* provider kind the configuration is loaded for is the value of
\* MS_AUTH_CREDENTIAL_PROVIDER the process started with; without
\* --credential-type the credential type is the value of
\* MS_AUTH_CREDENTIAL_TYPE; a value on the command line is the one used;
\* --password makes the provider "environment".
C16_OptionEnvPrecedence ==
  cli.pc # "start"
  => /\ (/\ cliIn.argv.password = ""
         /\ cliIn.argv.credentialProvider = ""
         /\ cliIn.env.CREDENTIAL_PROVIDER # "")
          => cli.env.CREDENTIAL_PROVIDER = cliIn.env.CREDENTIAL_PROVIDER
     /\ (cliIn.argv.credentialType = "" /\ cliIn.env.CREDENTIAL_TYPE # "")
          => cli.env.CREDENTIAL_TYPE = cliIn.env.CREDENTIAL_TYPE
     /\ (cliIn.argv.password = "" /\ cliIn.argv.credentialProvider # "")
          => cli.env.CREDENTIAL_PROVIDER = cliIn.argv.credentialProvider
     /\ cliIn.argv.credentialType # ""
          => cli.env.CREDENTIAL_TYPE = cliIn.argv.credentialType
     /\ cliIn.argv.password # "" => cli.env.CREDENTIAL_PROVIDER = "environment"
     /\ cli.authCalls > 0
          => /\ cli.config.credentialProvider = cli.env.CREDENTIAL_PROVIDER
             /\ cli.config.credentialType = cli.env.CREDENTIAL_TYPE

\* C17 as claimed: when the login action calls authenticate, with
\* MS_AUTH_WAIT_FOR_MSAL_TOKENS=false in the environment the configuration
\* makes the pass skip the token wait, and with MS_AUTH_MSAL_TOKEN_TIMEOUT=n
\* the wait is bounded by n milliseconds; by 30000 when it is not set.
C17_TokenWaitFromEnv ==
  cli.authCalls > 0
  => /\ cli.env.WAIT_FOR_MSAL_TOKENS = "false" => ~waitsForTokens(cli.config)
     /\ cli.env.WAIT_FOR_MSAL_TOKENS = "" => waitsForTokens(cli.config)
     /\ msalTokenTimeoutOf(cli.config) =
          IF cli.env.MSAL_TOKEN_TIMEOUT = <<>> THEN 30000
          ELSE parseInt(cli.env.MSAL_TOKEN_TIMEOUT).value

(***************************************************************************)
(* Specifications: each runs one of the state machines above and leaves    *)
(* the variables of the others parked.                                     *)
(***************************************************************************)
InitPath ==
  PathInit /\ ProvParked /\ CacheParked /\ AuthParked /\ BridgeParked /\ CliParked

SpecPath == InitPath /\ [][PathNext]_vars

InitProv ==
  ProvInit /\ PathParked /\ CacheParked /\ AuthParked /\ BridgeParked /\ CliParked

SpecProv == InitProv /\ [][ProvNext]_vars

InitCache ==
  CacheInit /\ PathParked /\ ProvParked /\ AuthParked /\ BridgeParked /\ CliParked

SpecCache == InitCache /\ [][CacheNext]_vars

InitBridge ==
  BridgeInit /\ PathParked /\ ProvParked /\ CacheParked /\ AuthParked /\ CliParked

SpecBridge == InitBridge /\ [][BridgeNext]_vars

\* The upstream connection responds, errors or closes, and the handler's
\* continuation runs: an event or step that can happen does happen.
SpecBridgeLive == InitBridge /\ [][BridgeNext]_vars /\ WF_vars(BridgeNext)

Init ==
  AuthInit /\ PathParked /\ ProvParked /\ CacheParked /\ BridgeParked /\ CliParked

Next == AuthNext

Spec == Init /\ [][Next]_vars

InitLive ==
  LiveInit /\ PathParked /\ ProvParked /\ CacheParked /\ BridgeParked /\ CliParked

\* Every await of the pass settles: whichever step the pass is at is taken.
EveryAwaitSettles(p) ==
  /\ WF_vars(FirstCall(p))
  /\ WF_vars(CreateProvider(p))
  /\ WF_vars(FetchCredential(p))
  /\ WF_vars(LaunchBrowser(p))
  /\ WF_vars(NewContext(p))
  /\ WF_vars(NewPage(p))
  /\ WF_vars(Navigate(p))
  /\ WF_vars(VerifyLoginPage(p))
  /\ WF_vars(EnterEmail(p))
  /\ WF_vars(PwWaitField(p))
  /\ WF_vars(PwFillSubmit(p))
  /\ WF_vars(PwCheckError(p))
  /\ WF_vars(CertAddRoute(p))
  /\ WF_vars(CertChoosers(p))
  /\ WF_vars(CertWaitResponse(p))
  /\ WF_vars(CertCheckFailure(p))
  /\ WF_vars(StaySignedIn(p))
  /\ WF_vars(RedirectWait(p))
  /\ WF_vars(TokenWait(p))
  /\ WF_vars(PersistSession(p))
  /\ WF_vars(SuccessScreenshot(p))
  /\ WF_vars(FailureScreenshot(p))
  /\ WF_vars(CloseContext(p))
  /\ WF_vars(CloseBrowser(p))

SpecLive == InitLive /\ [][LiveNext]_vars /\ EveryAwaitSettles(1)

InitTtl ==
  TtlInit /\ PathParked /\ ProvParked /\ CacheParked /\ BridgeParked /\ CliParked

SpecTtl == InitTtl /\ [][AuthNext]_vars

InitRace ==
  RaceInit /\ PathParked /\ ProvParked /\ CacheParked /\ BridgeParked /\ CliParked

SpecRace == InitRace /\ [][RaceNext]_vars

InitCli ==
  CliInit /\ PathParked /\ ProvParked /\ CacheParked /\ AuthParked /\ BridgeParked

SpecCli == InitCli /\ [][CliNext]_vars

=============================================================================
